---- MODULE Spec2Model ----
(***************************************************************************)
(* PlotWeaver: the story manager (story_manager.py), the world manager     *)
(* (world_manager.py) and the HTTP handlers in front of them               *)
(* (advanced_main.py, main.py), as state machines.                         *)
(*                                                                         *)
(* Python dicts are modelled as sequences of entries in insertion order    *)
(* (dict iteration order); a key is the entry's id field.  Free-text       *)
(* fields that no operation reads (title, summary, description, notes,     *)
(* timestamps) are left out of the records.                                *)
(***************************************************************************)
EXTENDS Integers, Sequences, FiniteSets, TLC

\* ------------------------------------------------------------------------
\* Bounds of the model
\* ------------------------------------------------------------------------
\* stories, chapters and scenes held in memory together
MaxEntities == 4

\* characters in a scene's content
MaxContentLen == 1

\* seconds the wall clock advances
MaxClock == 1

\* settings, timeline events and plot threads held in memory together
MaxWorldEntities == 3

\* turns kept in the conversation transcript
MaxConversation == 4

\* variations asked of POST /generate/multiple
MaxVariations == 2

\* characters held in the store
MaxCharacters == 2

\* development notes recorded for one character
MaxNotes == 1

\* names in the character_names of a request
MaxNames == 2

VARIABLES
    stories,        \* StoryManager.stories: story_id -> Story
    stories_file,   \* story_data/stories.json
    clock,          \* int(datetime.now().timestamp()) last observed
    edited,         \* stories.json was edited by hand
    settings,       \* WorldManager.settings: setting_id -> WorldSetting
    timeline,       \* WorldManager.timeline: event_id -> TimelineEvent
    plot_threads,   \* WorldManager.plot_threads: plot_id -> PlotThread
    settings_file,  \* world_data/world_settings.json
    timeline_file,  \* world_data/timeline.json
    plots_file,     \* world_data/plot_threads.json
    engine_ready,   \* llama_engine.is_ready()
    conversation,   \* character_memory.conversation_memory.chat_memory.messages
    characters,     \* character_memory.characters: name -> profile
    memory_file,    \* character_memory.json
    tasks,          \* the handler tasks of the event loop that have not answered yet
    resp            \* outcome of the last operation

storyVars == <<stories, stories_file, clock, edited>>

worldVars == <<settings, timeline, plot_threads, settings_file, timeline_file, plots_file>>

\* the engine, the character memory and the tasks of the requests in flight
genVars == <<engine_ready, conversation, characters, memory_file, tasks>>

vars == <<storyVars, worldVars, genVars, resp>>

\* ------------------------------------------------------------------------
\* Python helpers
\* ------------------------------------------------------------------------
RECURSIVE SumSeq(_)
\* sum(...) over a list of integers
SumSeq(s) == IF s = <<>> THEN 0 ELSE Head(s) + SumSeq(Tail(s))

\* list[i] of a list of length n: the 1-based position read, 0 for IndexError
PyIndex(i, n) ==
    IF i >= 0 THEN (IF i < n THEN i + 1 ELSE 0)
    ELSE (IF -i <= n THEN n + i + 1 ELSE 0)

\* key in dict
HasKey(d, k) == \E i \in DOMAIN d : d[i].id = k

\* position of key k in dict d (k is a key of d)
KeyPos(d, k) == CHOOSE i \in DOMAIN d : d[i].id = k

\* d[k] = v : replace in place when the key exists, else insert last
DictSet(d, k, v) ==
    IF HasKey(d, k) THEN [d EXCEPT ![KeyPos(d, k)] = v] ELSE Append(d, v)

\* the outcome of an operation: what it raised ("none" when it returned) and
\* the value it returned
Resp(op, error, body) == [op |-> op, error |-> error, body |-> body]

\* ------------------------------------------------------------------------
\* story_manager.py
\* ------------------------------------------------------------------------
ChapterStatus == {"PLANNED", "OUTLINE", "DRAFTING", "DRAFT", "REVISION", "COMPLETED"}

\* member.value
ChapterStatusValue(m) ==
    CASE m = "PLANNED" -> "planned"
      [] m = "OUTLINE" -> "outline"
      [] m = "DRAFTING" -> "drafting"
      [] m = "DRAFT" -> "draft"
      [] m = "REVISION" -> "revision"
      [] m = "COMPLETED" -> "completed"

\* ChapterStatus(value): the member with that value, "ValueError" if none
ChapterStatusOf(v) ==
    IF \E m \in ChapterStatus : ChapterStatusValue(m) = v
    THEN CHOOSE m \in ChapterStatus : ChapterStatusValue(m) = v
    ELSE "ValueError"

\* Scene.__post_init__
ScenePostInit(sc) ==
    IF Len(sc.content) > 0 THEN [sc EXCEPT !.word_count = Len(sc.content)] ELSE sc

\* Chapter._update_word_count
ChapterUpdateWordCount(ch) ==
    [ch EXCEPT !.actual_word_count =
        SumSeq([k \in DOMAIN ch.scenes |-> ch.scenes[k].word_count])]

\* Story._update_word_count left out: the stored total is kept
StoryUpdateWordCountStale(st) == st

\* Story._update_word_count
StoryUpdateWordCount(st) ==
    [st EXCEPT !.current_word_count =
        SumSeq([j \in DOMAIN st.chapters |-> st.chapters[j].actual_word_count])]

\* Scene(id=..., content="", word_count=0)
NewScene(id) == ScenePostInit([id |-> id, content |-> <<>>, word_count |-> 0])

\* Chapter(id=..., number=..., scenes=[]) with the dataclass defaults
NewChapter(id, number) ==
    ChapterUpdateWordCount(
        [id |-> id, number |-> number, scenes |-> <<>>, status |-> "PLANNED",
         target_word_count |-> 3000, actual_word_count |-> 0])

\* Story(id=..., chapters=[]) with the dataclass defaults
NewStory(id) ==
    StoryUpdateWordCount(
        [id |-> id, chapters |-> <<>>, target_word_count |-> 50000,
         current_word_count |-> 0])

\* the id without the running count: f"story_1_{int(datetime.now().timestamp())}"
StoryIdNoCount(count, ts) == <<"story", 1, ts>>

\* f"story_{len(self.stories) + 1}_{int(datetime.now().timestamp())}"
StoryId(count, ts) == <<"story", count + 1, ts>>

\* f"{story_id}_chapter_{chapter_number}"
ChapterId(story_id, number) == <<story_id, "chapter", number>>

\* f"{chapter.id}_scene_{len(chapter.scenes) + 1}"
SceneId(chapter_id, count) == <<chapter_id, "scene", count + 1>>

\* the status written as the member's name instead of its value
SaveChapterName(ch) == [ch EXCEPT !.status = ch.status]

\* chapter['status'] = chapter['status'].value
SaveChapter(ch) == [ch EXCEPT !.status = ChapterStatusValue(ch.status)]

\* the document save_stories dumps: asdict(story) with each status as its value
SaveStoriesData(ss) ==
    [i \in DOMAIN ss |->
        [ss[i] EXCEPT !.chapters = [j \in DOMAIN ss[i].chapters |->
                                        SaveChapter(ss[i].chapters[j])]]]

\* stories.json after save_stories
SavedStoriesFile(ss) == [exists |-> TRUE, data |-> SaveStoriesData(ss)]

\* Chapter(**chapter_data) after scenes and status were restored
LoadChapter(cd) ==
    ChapterUpdateWordCount(
        [cd EXCEPT !.scenes = [k \in DOMAIN cd.scenes |-> ScenePostInit(cd.scenes[k])],
                   !.status = ChapterStatusOf(cd.status)])

\* Story(**story_data) after the chapters were restored
LoadStory(sd) ==
    StoryUpdateWordCount(
        [sd EXCEPT !.chapters = [j \in DOMAIN sd.chapters |-> LoadChapter(sd.chapters[j])]])

\* ChapterStatus(chapter_data['status']) raises for some chapter of the file
LoadRaises(data) ==
    \E i \in DOMAIN data : \E j \in DOMAIN data[i].chapters :
        ChapterStatusOf(data[i].chapters[j].status) = "ValueError"

\* StoryManager._load_stories: {} when the file is missing or anything raises
LoadStories(file) ==
    IF ~file.exists \/ LoadRaises(file.data) THEN <<>>
    ELSE [i \in DOMAIN file.data |-> LoadStory(file.data[i])]

\* ------------------------------------------------------------------------
\* Inputs
\* ------------------------------------------------------------------------
UnknownStoryId == <<"story", 0, 0>>

StoryIdInputs == {stories[i].id : i \in DOMAIN stories} \cup {UnknownStoryId}

\* chapters held by all stories together
TotalChapters(ss) == SumSeq([i \in DOMAIN ss |-> Len(ss[i].chapters)])

\* scenes held by all chapters together
TotalScenes(ss) ==
    SumSeq([i \in DOMAIN ss |->
        SumSeq([j \in DOMAIN ss[i].chapters |-> Len(ss[i].chapters[j].scenes)])])

\* stories, chapters and scenes held together
Entities(ss) == Len(ss) + TotalChapters(ss) + TotalScenes(ss)

\* chapter numbers a caller passes: -1, 0, each chapter of the story, one past
ChapterNumberInputs(story_id) ==
    IF HasKey(stories, story_id)
    THEN (-1) .. (Len(stories[KeyPos(stories, story_id)].chapters) + 1)
    ELSE {1}

\* scene indexes a caller passes: -1, each scene of the chapter read, one past
SceneIndexInputs(story_id, chapter_number) ==
    IF HasKey(stories, story_id)
    THEN LET story == stories[KeyPos(stories, story_id)]
             c == PyIndex(chapter_number - 1, Len(story.chapters))
         IN IF c = 0 THEN {0} ELSE (-1) .. Len(story.chapters[c].scenes)
    ELSE {0}

ContentInputs == {[k \in 1 .. n |-> "x"] : n \in 0 .. MaxContentLen}

\* status strings a manual edit writes: three recognized values and one that
\* is no ChapterStatus value
StatusStrings == {"outline", "drafting", "completed", "finished"}

\* ------------------------------------------------------------------------
\* Operations of the story manager
\* ------------------------------------------------------------------------
\* StoryManager.__init__ on an empty data directory
StoryManagerInit ==
    /\ stories_file = [exists |-> FALSE, data |-> <<>>]
    /\ stories = LoadStories(stories_file)
    /\ clock = 0
    /\ edited = FALSE

\* numbering that starts at 0
ChapterNumberZeroBased(story) == Len(story.chapters)

\* chapter_number = len(story.chapters) + 1
ChapterNumber(story) == Len(story.chapters) + 1

\* StoryManager.create_story
CreateStory(ts) ==
    /\ UNCHANGED <<worldVars, genVars>>
    /\ Entities(stories) < MaxEntities
    /\ LET story_id == StoryId(Len(stories), ts)
           after == DictSet(stories, story_id, NewStory(story_id))
       IN /\ stories' = after
          /\ stories_file' = SavedStoriesFile(after)
          /\ resp' = Resp("create_story", "none", story_id)
    /\ clock' = ts
    /\ UNCHANGED edited

\* StoryManager.add_chapter
AddChapter(story_id) ==
    /\ UNCHANGED <<worldVars, genVars>>
    /\ IF ~HasKey(stories, story_id)
       THEN /\ resp' = Resp("add_chapter", "ValueError", <<>>)
            /\ UNCHANGED <<stories, stories_file>>
       ELSE LET p == KeyPos(stories, story_id)
                story == stories[p]
                chapter_number == ChapterNumber(story)
                chapter_id == ChapterId(story_id, chapter_number)
                after == [stories EXCEPT ![p].chapters =
                             Append(@, NewChapter(chapter_id, chapter_number))]
            IN /\ Entities(stories) < MaxEntities
               /\ stories' = after
               /\ stories_file' = SavedStoriesFile(after)
               /\ resp' = Resp("add_chapter", "none", chapter_id)
    /\ UNCHANGED <<clock, edited>>

\* StoryManager.add_scene
AddScene(story_id, chapter_number) ==
    /\ UNCHANGED <<worldVars, genVars>>
    /\ IF ~HasKey(stories, story_id)
       THEN /\ resp' = Resp("add_scene", "ValueError", <<>>)
            /\ UNCHANGED <<stories, stories_file>>
       ELSE LET p == KeyPos(stories, story_id)
                story == stories[p]
                c == PyIndex(chapter_number - 1, Len(story.chapters))
            IN IF chapter_number > Len(story.chapters)
               THEN /\ resp' = Resp("add_scene", "ValueError", <<>>)
                    /\ UNCHANGED <<stories, stories_file>>
               ELSE IF c = 0
               THEN /\ resp' = Resp("add_scene", "IndexError", <<>>)
                    /\ UNCHANGED <<stories, stories_file>>
               ELSE LET chapter == story.chapters[c]
                        scene_id == SceneId(chapter.id, Len(chapter.scenes))
                        after == [stories EXCEPT ![p].chapters[c].scenes =
                                     Append(@, NewScene(scene_id))]
                    IN /\ Entities(stories) < MaxEntities
                       /\ stories' = after
                       /\ stories_file' = SavedStoriesFile(after)
                       /\ resp' = Resp("add_scene", "none", scene_id)
    /\ UNCHANGED <<clock, edited>>

\* StoryManager.update_scene_content
UpdateSceneContent(story_id, chapter_number, scene_index, content) ==
    /\ UNCHANGED <<worldVars, genVars>>
    /\ IF ~HasKey(stories, story_id)
          THEN /\ resp' = Resp("update_scene_content", "KeyError", <<>>)
               /\ UNCHANGED <<stories, stories_file>>
          ELSE LET p == KeyPos(stories, story_id)
                   story == stories[p]
                   c == PyIndex(chapter_number - 1, Len(story.chapters))
               IN IF c = 0
                  THEN /\ resp' = Resp("update_scene_content", "IndexError", <<>>)
                       /\ UNCHANGED <<stories, stories_file>>
                  ELSE LET s == PyIndex(scene_index, Len(story.chapters[c].scenes))
                       IN IF s = 0
                          THEN /\ resp' = Resp("update_scene_content", "IndexError", <<>>)
                               /\ UNCHANGED <<stories, stories_file>>
                          ELSE LET scene == [story.chapters[c].scenes[s] EXCEPT
                                                !.content = content,
                                                !.word_count = Len(content)]
                                   chapter == ChapterUpdateWordCount(
                                       [story.chapters[c] EXCEPT !.scenes[s] = scene])
                                   updated == StoryUpdateWordCount(
                                       [story EXCEPT !.chapters[c] = chapter])
                                   after == [stories EXCEPT ![p] = updated]
                               IN /\ stories' = after
                                  /\ stories_file' = SavedStoriesFile(after)
                                  /\ resp' = Resp("update_scene_content", "none", <<>>)
    /\ UNCHANGED <<clock, edited>>

\* stories.json is edited by hand: the status string of one chapter is rewritten
EditStoriesFile(i, j, s) ==
    /\ UNCHANGED <<worldVars, genVars>>
    /\ ~edited
    /\ stories_file.exists
    /\ stories_file.data[i].chapters[j].status # s
    /\ stories_file' = [stories_file EXCEPT !.data[i].chapters[j].status = s]
    /\ edited' = TRUE
    /\ resp' = Resp("edit_file", "none", <<>>)
    /\ UNCHANGED <<stories, clock>>

\* the process is restarted: StoryManager.__init__ reads stories.json
RestartStories ==
    /\ UNCHANGED <<worldVars, genVars>>
    /\ stories' = LoadStories(stories_file)
    /\ resp' = Resp("restart", "none", <<>>)
    /\ UNCHANGED <<stories_file, clock, edited>>

\* ------------------------------------------------------------------------
\* world_manager.py
\* ------------------------------------------------------------------------
SettingType ==
    {"GEOGRAPHY", "HISTORY", "CULTURE", "MAGIC", "TECHNOLOGY", "POLITICS",
     "RELIGION", "ECONOMY"}

\* member.value
SettingTypeValue(m) ==
    CASE m = "GEOGRAPHY" -> "geography"
      [] m = "HISTORY" -> "history"
      [] m = "CULTURE" -> "culture"
      [] m = "MAGIC" -> "magic"
      [] m = "TECHNOLOGY" -> "technology"
      [] m = "POLITICS" -> "politics"
      [] m = "RELIGION" -> "religion"
      [] m = "ECONOMY" -> "economy"

\* SettingType(value): the member with that value, "ValueError" if none
SettingTypeOf(v) ==
    IF \E m \in SettingType : SettingTypeValue(m) = v
    THEN CHOOSE m \in SettingType : SettingTypeValue(m) = v
    ELSE "ValueError"

\* a file that does not exist
MissingFile == [exists |-> FALSE, valid |-> FALSE, data |-> <<>>]

\* a file holding the JSON document data
JsonFile(data) == [exists |-> TRUE, valid |-> TRUE, data |-> data]

\* a file opened with 'w' whose json.dump raised part-way: no JSON document
TruncatedFile == [exists |-> TRUE, valid |-> FALSE, data |-> <<>>]

\* WorldSetting(id, name, type, ...)
WorldSetting(id, name, type) == [id |-> id, name |-> name, type |-> type]

\* TimelineEvent(id, name, year, importance, ...)
TimelineEvent(id, name, year, importance, related_characters) ==
    [id |-> id, name |-> name, year |-> year, importance |-> importance,
     related_characters |-> related_characters]

\* PlotThread(id, name, payoff_events, status, ...)
PlotThread(id, name, payoff_events, status, related_characters) ==
    [id |-> id, name |-> name, payoff_events |-> payoff_events, status |-> status,
     related_characters |-> related_characters]

\* WorldManager._load_settings: {k: WorldSetting(**v)}, the type left as stored
LoadSettings(file) == IF file.exists /\ file.valid THEN file.data ELSE <<>>

\* WorldManager._load_timeline
LoadTimeline(file) == IF file.exists /\ file.valid THEN file.data ELSE <<>>

\* WorldManager._load_plot_threads
LoadPlotThreads(file) == IF file.exists /\ file.valid THEN file.data ELSE <<>>

\* json.dump of asdict(setting) raises TypeError: a SettingType member is not
\* JSON serializable (a type loaded from a file is a plain string and is)
DumpRaises(ss) == \E i \in DOMAIN ss : ss[i].type \in SettingType

\* WorldManager.save_all: the three files are written in turn; the first dump
\* that raises leaves its file truncated and the later files untouched
SaveAll(ss, tl, pt) ==
    IF DumpRaises(ss)
    THEN /\ settings_file' = TruncatedFile
         /\ UNCHANGED <<timeline_file, plots_file>>
    ELSE /\ settings_file' = JsonFile(ss)
         /\ timeline_file' = JsonFile(tl)
         /\ plots_file' = JsonFile(pt)

\* WorldManager.add_setting
AddSetting(setting) ==
    LET after == DictSet(settings, setting.id, setting)
    IN /\ settings' = after
       /\ UNCHANGED <<timeline, plot_threads>>
       /\ SaveAll(after, timeline, plot_threads)

\* WorldManager.add_timeline_event
AddTimelineEvent(event) ==
    LET after == DictSet(timeline, event.id, event)
    IN /\ timeline' = after
       /\ UNCHANGED <<settings, plot_threads>>
       /\ SaveAll(settings, after, plot_threads)

\* WorldManager.add_plot_thread
AddPlotThread(plot) ==
    LET after == DictSet(plot_threads, plot.id, plot)
    IN /\ plot_threads' = after
       /\ UNCHANGED <<settings, timeline>>
       /\ SaveAll(settings, timeline, after)

\* insert e behind every entry whose year is later (ties go first)
InsertByYearBeforeTies(sorted, e) ==
    LET n == Cardinality({k \in DOMAIN sorted : sorted[k].year < e.year})
    IN SubSeq(sorted, 1, n) \o <<e>> \o SubSeq(sorted, n + 1, Len(sorted))

\* insert e behind every entry of the sorted list whose year is not later
InsertByYear(sorted, e) ==
    LET n == Cardinality({k \in DOMAIN sorted : sorted[k].year <= e.year})
    IN SubSeq(sorted, 1, n) \o <<e>> \o SubSeq(sorted, n + 1, Len(sorted))

RECURSIVE SortedByYear(_)
\* sorted(events, key=lambda x: x.year)
SortedByYear(events) ==
    IF events = <<>> THEN <<>>
    ELSE InsertByYear(SortedByYear(SubSeq(events, 1, Len(events) - 1)),
                      events[Len(events)])

\* one rendered entry of the world context
Line(kind, name, year, type) == [kind |-> kind, name |-> name, year |-> year, type |-> type]

\* setting.type.value raises AttributeError when the type is a plain string
ContextRaises(ss) == \E i \in DOMAIN ss : ss[i].type \notin SettingType

\* the events of get_world_context: importance >= 3
ImportantEvents(tl) == SelectSeq(tl, LAMBDA e : e.importance >= 3)

\* the plots of get_world_context: status == "active"
ActivePlots(pt) == SelectSeq(pt, LAMBDA q : q.status = "active")

\* WorldManager.get_world_context() without a filter, when nothing raises
WorldContextLines(ss, tl, pt) ==
    <<Line("header", "settings", 0, "")>>
    \o [i \in DOMAIN ss |-> Line("setting", ss[i].name, 0, SettingTypeValue(ss[i].type))]
    \o <<Line("header", "history", 0, "")>>
    \o LET events == SortedByYear(ImportantEvents(tl))
       IN [i \in DOMAIN events |-> Line("event", events[i].name, events[i].year, "")]
    \o <<Line("header", "plots", 0, "")>>
    \o LET plots == ActivePlots(pt)
       IN [i \in DOMAIN plots |-> Line("plot", plots[i].name, 0, "")]

\* any(char in entity.related_characters for char in character_names)
RelatedToAny(entity, character_names) ==
    \E k \in DOMAIN character_names : \E l \in DOMAIN entity.related_characters :
        character_names[k] = entity.related_characters[l]

\* relevant_events of get_character_relevant_context
RelevantEvents(tl, character_names) ==
    SelectSeq(tl, LAMBDA e : RelatedToAny(e, character_names))

\* the relevant events as they were inserted
RelevantEventsAsInserted(tl, character_names) == RelevantEvents(tl, character_names)

\* sorted(relevant_events, key=lambda x: x.year)
RelevantEventsByYear(tl, character_names) ==
    SortedByYear(RelevantEvents(tl, character_names))

\* relevant_plots of get_character_relevant_context
RelevantPlots(pt, character_names) ==
    SelectSeq(pt, LAMBDA q : RelatedToAny(q, character_names))

\* WorldManager.get_character_relevant_context
CharacterRelevantContext(tl, pt, character_names) ==
    LET events == RelevantEventsByYear(tl, character_names)
        plots == RelevantPlots(pt, character_names)
    IN (IF events # <<>> THEN <<Line("header", "related_history", 0, "")>> ELSE <<>>)
       \o [i \in DOMAIN events |-> Line("event", events[i].name, events[i].year, "")]
       \o (IF plots # <<>> THEN <<Line("header", "related_plots", 0, "")>> ELSE <<>>)
       \o [i \in DOMAIN plots |-> Line("plot", plots[i].name, 0, plots[i].status)]

\* the active threads with a payoff are reported too
AllActiveIssues(pt) ==
    LET open == SelectSeq(pt, LAMBDA q : q.status = "active")
    IN [i \in DOMAIN open |-> open[i].name]

\* WorldManager.check_consistency: one message per active thread without payoff
ConsistencyIssues(pt) ==
    LET open == SelectSeq(pt, LAMBDA q : q.status = "active" /\ q.payoff_events = <<>>)
    IN [i \in DOMAIN open |-> open[i].name]

\* ------------------------------------------------------------------------
\* advanced_main.py: the world endpoints
\* ------------------------------------------------------------------------
\* f"setting_{len(world_manager.settings) + 1}"
SettingId(count) == <<"setting", count + 1>>

\* an id that leaves the running count out
EventIdConstant(count) == <<"event", 1>>

\* f"event_{len(world_manager.timeline) + 1}"
EventId(count) == <<"event", count + 1>>

\* f"plot_{len(world_manager.plot_threads) + 1}"
PlotId(count) == <<"plot", count + 1>>

\* settings, events and plot threads held together
WorldEntities == Len(settings) + Len(timeline) + Len(plot_threads)

SettingNameInputs == {"N1", "N2"}

\* two category strings of the enum and one that is none
SettingTypeInputs == {"geography", "magic", "weather"}

EventNameInputs == {"A", "B"}

YearInputs == {100, 300, 500}

ImportanceInputs == {2, 3}

PlotNameInputs == {"P1", "P2"}

\* the body of an HTTP response
Http(status, content) == [status |-> status, content |-> content]

\* POST /world/settings
PostWorldSetting(name, type) ==
    /\ WorldEntities < MaxWorldEntities
    /\ IF SettingTypeOf(type) = "ValueError"
       THEN /\ resp' = Resp("post_setting", "ValueError", Http(500, <<>>))
            /\ UNCHANGED <<worldVars, genVars>>
       ELSE LET setting_id == SettingId(Len(settings))
                setting == WorldSetting(setting_id, name, SettingTypeOf(type))
            IN /\ AddSetting(setting)
               /\ resp' = IF DumpRaises(DictSet(settings, setting_id, setting))
                          THEN Resp("post_setting", "TypeError", Http(500, <<>>))
                          ELSE Resp("post_setting", "none", Http(200, setting_id))
    /\ UNCHANGED <<storyVars, genVars>>

\* POST /world/timeline
PostTimelineEvent(name, year, importance, related_characters) ==
    /\ WorldEntities < MaxWorldEntities
    /\ LET event_id == EventId(Len(timeline))
       IN /\ AddTimelineEvent(TimelineEvent(event_id, name, year, importance,
                                            related_characters))
          /\ resp' = IF DumpRaises(settings)
                     THEN Resp("post_timeline", "TypeError", Http(500, <<>>))
                     ELSE Resp("post_timeline", "none", Http(200, event_id))
    /\ UNCHANGED <<storyVars, genVars>>

\* POST /world/plots
PostPlotThread(name, related_characters) ==
    /\ WorldEntities < MaxWorldEntities
    /\ LET plot_id == PlotId(Len(plot_threads))
       IN /\ AddPlotThread(PlotThread(plot_id, name, <<>>, "active", related_characters))
          /\ resp' = IF DumpRaises(settings)
                     THEN Resp("post_plot", "TypeError", Http(500, <<>>))
                     ELSE Resp("post_plot", "none", Http(200, plot_id))
    /\ UNCHANGED <<storyVars, genVars>>

\* GET /world/timeline
GetTimeline ==
    /\ resp' = Resp("get_timeline", "none", Http(200, SortedByYear(timeline)))
    /\ UNCHANGED <<storyVars, worldVars, genVars>>

\* WorldManager.get_world_context()
GetWorldContext ==
    /\ resp' = IF ContextRaises(settings)
               THEN Resp("get_world_context", "AttributeError", <<>>)
               ELSE Resp("get_world_context", "none",
                         WorldContextLines(settings, timeline, plot_threads))
    /\ UNCHANGED <<storyVars, worldVars, genVars>>

\* a call of WorldManager.get_character_relevant_context
GetCharacterRelevantContext(character_names) ==
    /\ resp' = Resp("get_character_relevant_context", "none",
                    CharacterRelevantContext(timeline, plot_threads, character_names))
    /\ UNCHANGED <<storyVars, worldVars, genVars>>

\* the settings of get_world_context(relevant_types) that pass
\* `setting.type in relevant_types`: a type that is a plain string is equal
\* to no member of the enum
FilteredSettings(ss, relevant_types) == SelectSeq(ss, LAMBDA x : x.type \in relevant_types)

\* WorldManager.get_world_context(relevant_types) with a list of SettingType
GetWorldContextFor(relevant_types) ==
    /\ resp' = IF ContextRaises(FilteredSettings(settings, relevant_types))
               THEN Resp("get_world_context_for", "AttributeError", <<>>)
               ELSE Resp("get_world_context_for", "none",
                         WorldContextLines(FilteredSettings(settings, relevant_types),
                                           timeline, plot_threads))
    /\ UNCHANGED <<storyVars, worldVars, genVars>>

\* WorldManager.check_consistency()
CheckConsistency ==
    /\ resp' = Resp("check_consistency", "none", ConsistencyIssues(plot_threads))
    /\ UNCHANGED <<storyVars, worldVars, genVars>>

\* the process is restarted: WorldManager.__init__ reads the three files
RestartWorld ==
    /\ settings' = LoadSettings(settings_file)
    /\ timeline' = LoadTimeline(timeline_file)
    /\ plot_threads' = LoadPlotThreads(plots_file)
    /\ resp' = Resp("restart_world", "none", <<>>)
    /\ UNCHANGED <<settings_file, timeline_file, plots_file, storyVars, genVars>>

\* ------------------------------------------------------------------------
\* main.py and advanced_main.py: the generation endpoints
\* ------------------------------------------------------------------------
PromptInputs == {"p1", "p2"}

\* what llama_engine.generate does with a prompt: a text, or it raises
EngineOutcomes == {"r1", "r2", "RuntimeError"}

\* the story_id of a generation request: <<>> for None, else <<id>> with a
\* stored or an unknown id
GenStoryIdInputs == {<<>>} \cup {<<sid>> : sid \in StoryIdInputs}

\* the body of the response to a generation request, and the number of
\* llama_engine.generate calls the request made
GenBody(status, content, generate_calls) ==
    [status |-> status, content |-> content, generate_calls |-> generate_calls]

\* except Exception as e: raise HTTPException(status_code=500, ...)
\* HTTPException is an Exception, so one raised in the try block is caught too
ExceptException(exc) == 500

\* add_user_message(user_input); add_ai_message(ai_response)
AddConversation(user_input, ai_response) ==
    conversation \o <<[type |-> "human", content |-> user_input],
                      [type |-> "ai", content |-> ai_response]>>

\* CharacterMemoryManager.__init__ where no character_memory.json exists
CharacterMemoryInit ==
    /\ characters = <<>>
    /\ memory_file = [exists |-> FALSE, data |-> <<>>]

\* ------------------------------------------------------------------------
\* memory_manager.py and the character endpoints of main.py
\* ------------------------------------------------------------------------
\* names a request can carry
CharacterNameInputs == {"Alice", "Bob", "Carol"}

\* descriptions a request can carry
DescriptionInputs == {"d1", "d2"}

\* traits of a request: <<>> for None, else <<list>>
TraitsInputs == {<<>>, <<<<"brave">>>>}

\* the sentinel get_character_memory_string returns ("no character info")
NoCharacterInfo == "no_character_info"

\* backgrounds of a request: <<>> for null, <<"">> for the default
BackgroundInputs == {<<>>, <<"b1">>}

\* relationships of a request: <<>> for None, else <<dict>>
RelationshipsInputs == {<<>>, <<<<[id |-> "Bob", relation |-> "friend"]>>>>}

\* descriptions of update_character: <<>> for None
OptionalDescriptionInputs == {<<>>, <<"d2">>}

\* self.characters[name] = {"description": ..., "traits": traits or [], ...}
\* (background is stored as given, None included; the creation time is left out)
NewCharacter(name, description, traits, background, relationships) ==
    [id |-> name,
     description |-> description,
     traits |-> IF traits = <<>> THEN <<>> ELSE traits[1],
     background |-> background,
     relationships |-> IF relationships = <<>> THEN <<>> ELSE relationships[1],
     story_appearances |-> <<>>,
     development_notes |-> <<>>]

\* an update that stores the default of every argument that is None
UpdatedCharacterDefaults(char, description, traits, background, relationships) ==
    [char EXCEPT !.description = IF description = <<>> THEN @ ELSE description[1],
                 !.traits = IF traits = <<>> THEN <<>> ELSE traits[1],
                 !.background = IF background = <<>> THEN @ ELSE background,
                 !.relationships = IF relationships = <<>> THEN <<>> ELSE relationships[1]]

\* update_character: a field is replaced when the argument is not None
UpdatedCharacter(char, description, traits, background, relationships) ==
    [char EXCEPT !.description = IF description = <<>> THEN @ ELSE description[1],
                 !.traits = IF traits = <<>> THEN @ ELSE traits[1],
                 !.background = IF background = <<>> THEN @ ELSE background,
                 !.relationships = IF relationships = <<>> THEN @ ELSE relationships[1]]

\* _save_memory: json.dump({'characters': self.characters, ...})
SavedMemoryFile(chars) == [exists |-> TRUE, data |-> chars]

\* a deletion that drops the whole store
DictDelAll(d, k) == <<>>

\* del d[k]
DictDel(d, k) == SelectSeq(d, LAMBDA e : e.id # k)

\* char_info: the lines of one character's block
CharInfo(char) ==
    <<char.id, char.description>>
    \o (IF char.traits # <<>> THEN <<"traits">> ELSE <<>>)
    \o (IF char.background # <<>> /\ char.background # <<"">> THEN <<"background">> ELSE <<>>)
    \o (IF char.relationships # <<>> THEN <<"relationships">> ELSE <<>>)

\* blocks of the stored characters that were asked for, in the order of the store
RECURSIVE MemoryPartsStoreOrder(_, _)
MemoryPartsStoreOrder(chars, character_names) ==
    IF chars = <<>> THEN <<>>
    ELSE (IF \E k \in DOMAIN character_names : character_names[k] = Head(chars).id
          THEN CharInfo(Head(chars))
          ELSE <<>>)
         \o MemoryPartsStoreOrder(Tail(chars), character_names)

\* memory_parts of get_character_memory_string: the blocks of the requested
\* names that are stored, in the order of the request
RECURSIVE MemoryParts(_, _)
MemoryParts(chars, character_names) ==
    IF character_names = <<>> THEN <<>>
    ELSE (IF HasKey(chars, Head(character_names))
          THEN CharInfo(chars[KeyPos(chars, Head(character_names))])
          ELSE <<>>)
         \o MemoryParts(chars, Tail(character_names))

\* CharacterMemoryManager.get_character_memory_string; character_names is
\* <<>> for None and for the empty list
GetCharacterMemoryString(chars, character_names) ==
    IF character_names = <<>> THEN <<NoCharacterInfo>>
    ELSE IF MemoryParts(chars, character_names) = <<>> THEN <<NoCharacterInfo>>
    ELSE MemoryParts(chars, character_names)

\* messages[-k:]
PyLast(messages, k) ==
    IF k = 0 \/ k >= Len(messages) THEN messages
    ELSE SubSeq(messages, Len(messages) - k + 1, Len(messages))

\* recent_messages of get_recent_conversation
RecentMessages(messages, num_messages) ==
    IF Len(messages) > num_messages THEN PyLast(messages, num_messages) ELSE messages

\* conversation_text: one "speaker: text" line for each human or ai message
ConversationText(messages) ==
    [k \in DOMAIN messages |->
        [speaker |-> IF messages[k].type = "human" THEN "user" ELSE "AI",
         content |-> messages[k].content]]

\* POST /characters of a request that leaves background and relationships
\* at their defaults
PostCharacter(name, description, traits) ==
    /\ HasKey(characters, name) \/ Len(characters) < MaxCharacters
    /\ LET after == DictSet(characters, name,
                            NewCharacter(name, description, traits, <<"">>, <<>>))
       IN /\ characters' = after
          /\ memory_file' = SavedMemoryFile(after)
          /\ resp' = Resp("post_character", "none",
                          Http(200, after[KeyPos(after, name)]))
    /\ UNCHANGED <<engine_ready, tasks, conversation, storyVars, worldVars>>

\* GET /characters/{character_name}
GetCharacter(character_name) ==
    /\ IF ~HasKey(characters, character_name)
       THEN resp' = Resp("get_character", "HTTPException404", Http(404, <<>>))
       ELSE resp' = Resp("get_character", "none",
                         Http(200, characters[KeyPos(characters, character_name)]))
    /\ UNCHANGED <<genVars, storyVars, worldVars>>

\* PUT /characters/{character_name} of a request that leaves background and
\* relationships at their defaults
PutCharacter(character_name, description, traits) ==
    /\ IF ~HasKey(characters, character_name)
       THEN /\ resp' = Resp("put_character", "HTTPException404", Http(404, <<>>))
            /\ UNCHANGED <<characters, memory_file>>
       ELSE LET p == KeyPos(characters, character_name)
                after == [characters EXCEPT
                             ![p] = UpdatedCharacter(characters[p], <<description>>,
                                                    traits, <<"">>, <<>>)]
            IN /\ characters' = after
               /\ memory_file' = SavedMemoryFile(after)
               /\ resp' = Resp("put_character", "none", Http(200, after[p]))
    /\ UNCHANGED <<engine_ready, tasks, conversation, storyVars, worldVars>>

\* DELETE /characters/{character_name}
DeleteCharacter(character_name) ==
    /\ IF ~HasKey(characters, character_name)
       THEN /\ resp' = Resp("delete_character", "HTTPException404", Http(404, <<>>))
            /\ UNCHANGED <<characters, memory_file>>
       ELSE LET after == DictDel(characters, character_name)
            IN /\ characters' = after
               /\ memory_file' = SavedMemoryFile(after)
               /\ resp' = Resp("delete_character", "none", Http(200, <<>>))
    /\ UNCHANGED <<engine_ready, tasks, conversation, storyVars, worldVars>>

\* CharacterMemoryManager.add_character
AddCharacter(name, description, traits, background, relationships) ==
    /\ HasKey(characters, name) \/ Len(characters) < MaxCharacters
    /\ LET after == DictSet(characters, name,
                            NewCharacter(name, description, traits, background, relationships))
       IN /\ characters' = after
          /\ memory_file' = SavedMemoryFile(after)
          /\ resp' = Resp("add_character", "none", <<>>)
    /\ UNCHANGED <<engine_ready, tasks, conversation, storyVars, worldVars>>

\* CharacterMemoryManager.update_character
UpdateCharacter(name, description, traits, background, relationships) ==
    /\ IF ~HasKey(characters, name)
       THEN /\ resp' = Resp("update_character", "ValueError", <<>>)
            /\ UNCHANGED <<characters, memory_file>>
       ELSE LET p == KeyPos(characters, name)
                after == [characters EXCEPT
                             ![p] = UpdatedCharacter(characters[p], description, traits,
                                                    background, relationships)]
            IN /\ characters' = after
               /\ memory_file' = SavedMemoryFile(after)
               /\ resp' = Resp("update_character", "none", <<>>)
    /\ UNCHANGED <<engine_ready, tasks, conversation, storyVars, worldVars>>

\* CharacterMemoryManager.add_character_development (the date is left out)
AddCharacterDevelopment(character_name, development_note) ==
    /\ IF ~HasKey(characters, character_name)
       THEN UNCHANGED <<characters, memory_file>>
       ELSE LET p == KeyPos(characters, character_name)
                after == [characters EXCEPT ![p].development_notes =
                             Append(@, [note |-> development_note])]
            IN /\ Len(characters[p].development_notes) < MaxNotes
               /\ characters' = after
               /\ memory_file' = SavedMemoryFile(after)
    /\ resp' = Resp("add_character_development", "none", <<>>)
    /\ UNCHANGED <<engine_ready, tasks, conversation, storyVars, worldVars>>

\* a call of CharacterMemoryManager.get_character_memory_string
GetCharacterMemory(character_names) ==
    /\ resp' = Resp("get_character_memory_string", "none",
                    [character_names |-> character_names,
                     text |-> GetCharacterMemoryString(characters, character_names)])
    /\ UNCHANGED <<genVars, storyVars, worldVars>>

\* CharacterMemoryManager.get_recent_conversation
GetRecentConversation(num_messages) ==
    /\ resp' = Resp("get_recent_conversation", "none",
                    ConversationText(RecentMessages(conversation, num_messages)))
    /\ UNCHANGED <<genVars, storyVars, worldVars>>

\* DELETE /memory/conversation
ClearConversationHistory ==
    /\ conversation' = <<>>
    /\ resp' = Resp("clear_conversation", "none", <<>>)
    /\ UNCHANGED <<engine_ready, tasks, characters, memory_file, storyVars, worldVars>>

\* an add_conversation that ends with _save_memory()
FileSavedWithConversation(file, chars) == SavedMemoryFile(chars)

\* character_memory.json after add_conversation: the transcript is kept in
\* memory only and the file is not written
FileAfterAddConversation(file, chars) == file

\* POST /generate (main.py generate_plot)
GeneratePlot(prompt, outcome) ==
    /\ Len(conversation) + 2 <= MaxConversation
    /\ IF ~engine_ready
       THEN /\ resp' = Resp("generate", "HTTPException503",
                            GenBody(ExceptException("HTTPException503"), <<>>, 0))
            /\ UNCHANGED <<conversation, memory_file>>
       ELSE IF outcome = "RuntimeError"
       THEN /\ resp' = Resp("generate", "RuntimeError",
                            GenBody(ExceptException("RuntimeError"), <<>>, 1))
            /\ UNCHANGED <<conversation, memory_file>>
       ELSE /\ conversation' = AddConversation(prompt, outcome)
            /\ memory_file' = FileAfterAddConversation(memory_file, characters)
            /\ resp' = Resp("generate", "none", GenBody(200, outcome, 1))
    /\ UNCHANGED <<engine_ready, tasks, characters, storyVars, worldVars>>

\* a loop that meets no failure
FirstFailureNone(outcomes) == 0

\* the first variation whose llama_engine.generate raises, 0 when none does:
\* the exception leaves the loop
FirstFailure(outcomes) ==
    IF \A i \in DOMAIN outcomes : outcomes[i] # "RuntimeError" THEN 0
    ELSE CHOOSE i \in DOMAIN outcomes :
             /\ outcomes[i] = "RuntimeError"
             /\ \A j \in 1 .. i - 1 : outcomes[j] # "RuntimeError"

\* variations.append({"variation": i + 1, "response": response, ...})
Variations(outcomes) ==
    [i \in DOMAIN outcomes |-> [variation |-> i, response |-> outcomes[i]]]

\* POST /generate/multiple (main.py generate_multiple_plots): outcomes[i] is
\* what the engine does with the prompt of variation i
GenerateMultiplePlots(prompt, outcomes) ==
    /\ LET first == FirstFailure(outcomes)
       IN IF ~engine_ready
          THEN resp' = Resp("generate_multiple", "HTTPException503",
                            GenBody(ExceptException("HTTPException503"), <<>>, 0))
          ELSE IF first # 0
          THEN resp' = Resp("generate_multiple", "RuntimeError",
                            GenBody(ExceptException("RuntimeError"), <<>>, first))
          ELSE resp' = Resp("generate_multiple", "none",
                            GenBody(200, Variations(outcomes), Len(outcomes)))
    /\ UNCHANGED <<genVars, storyVars, worldVars>>

\* a block that is added whatever the text is
CharacterContextEcho(character_context) ==
    <<[kind |-> "character", text |-> character_context]>>

\* if character_context != "キャラクター情報なし": context_parts.append(...)
CharacterContext(character_context) ==
    IF character_context # <<NoCharacterInfo>>
    THEN <<[kind |-> "character", text |-> character_context]>>
    ELSE <<>>

\* the context blocks advanced_generate joins in front of the instruction;
\* get_character_memory_string() is called without names
ContextParts(use_world_context, story_id, chapter_number, use_character_memory) ==
    (IF use_world_context
     THEN <<[kind |-> "world",
             text |-> WorldContextLines(settings, timeline, plot_threads)]>>
     ELSE <<>>)
    \o (IF story_id # <<>> /\ HasKey(stories, story_id[1])
        THEN <<[kind |-> "story", text |-> story_id]>>
        ELSE <<>>)
    \o (IF /\ story_id # <<>>
           /\ chapter_number # 0
           /\ stories[KeyPos(stories, story_id[1])].chapters # <<>>
        THEN <<[kind |-> "chapter", text |-> story_id]>>
        ELSE <<>>)
    \o (IF use_character_memory
        THEN CharacterContext(GetCharacterMemoryString(characters, <<>>))
        ELSE <<>>)

\* what advanced_generate raises before it reaches the engine, "none" if nothing
ContextError(use_world_context, story_id, chapter_number) ==
    IF use_world_context /\ ContextRaises(settings) THEN "AttributeError"
    ELSE IF story_id # <<>> /\ chapter_number # 0 /\ ~HasKey(stories, story_id[1])
    THEN "KeyError"
    ELSE "none"

\* POST /generate/advanced (advanced_main.py advanced_generate)
AdvancedGenerate(prompt, use_world_context, story_id, chapter_number, use_character_memory, outcome) ==
    /\ LET error == ContextError(use_world_context, story_id, chapter_number)
       IN IF ~engine_ready
          THEN resp' = Resp("generate_advanced", "HTTPException503",
                            GenBody(ExceptException("HTTPException503"), <<>>, 0))
          ELSE IF error # "none"
          THEN resp' = Resp("generate_advanced", error,
                            GenBody(ExceptException(error), <<>>, 0))
          ELSE IF outcome = "RuntimeError"
          THEN resp' = Resp("generate_advanced", "RuntimeError",
                            GenBody(ExceptException("RuntimeError"), <<>>, 1))
          ELSE resp' = Resp("generate_advanced", "none",
                            GenBody(200,
                                    [final_prompt |->
                                         ContextParts(use_world_context, story_id,
                                                      chapter_number, use_character_memory)
                                         \o <<[kind |-> "instruction", text |-> prompt]>>,
                                     response |-> outcome,
                                     context_used |->
                                         [world_context |-> use_world_context,
                                          story_context |-> story_id # <<>>,
                                          character_memory |-> use_character_memory]],
                                    1))
    /\ UNCHANGED <<genVars, storyVars, worldVars>>

\* the backend as found at startup: the model file is there or it is not
EngineInit ==
    /\ engine_ready \in BOOLEAN
    /\ conversation = <<>>

\* world_settings.json as found at startup: none, or written by hand
HandSettingsFiles ==
    {MissingFile,
     JsonFile(<<WorldSetting(SettingId(0), "N1", "geography")>>),
     JsonFile(<<WorldSetting(SettingId(0), "N1", "weather"),
                WorldSetting(SettingId(1), "N2", "magic")>>)}

\* plot_threads.json as found at startup: none, or written by hand
HandPlotsFiles ==
    {MissingFile,
     JsonFile(<<PlotThread(PlotId(0), "P1", <<>>, "resolved", <<>>)>>),
     JsonFile(<<PlotThread(PlotId(0), "P1", <<"event_1">>, "active", <<>>),
                PlotThread(PlotId(1), "P2", <<>>, "active", <<>>)>>)}

\* WorldManager.__init__
WorldManagerInit ==
    /\ settings_file \in HandSettingsFiles
    /\ timeline_file = MissingFile
    /\ plots_file \in HandPlotsFiles
    /\ settings = LoadSettings(settings_file)
    /\ timeline = LoadTimeline(timeline_file)
    /\ plot_threads = LoadPlotThreads(plots_file)

\* WorldManager.__init__ on an empty data directory
WorldManagerInitEmpty ==
    /\ settings_file = MissingFile
    /\ timeline_file = MissingFile
    /\ plots_file = MissingFile
    /\ settings = <<>>
    /\ timeline = <<>>
    /\ plot_threads = <<>>

NextWorld ==
    \/ \E name \in SettingNameInputs : \E type \in SettingTypeInputs :
          PostWorldSetting(name, type)
    \/ \E name \in EventNameInputs : \E year \in YearInputs :
          \E importance \in ImportanceInputs :
              PostTimelineEvent(name, year, importance, <<>>)
    \/ \E name \in PlotNameInputs : PostPlotThread(name, <<>>)
    \/ GetTimeline
    \/ GetWorldContext
    \/ \E relevant_types \in {{"GEOGRAPHY"}, {"GEOGRAPHY", "MAGIC"}} :
          GetWorldContextFor(relevant_types)
    \/ CheckConsistency
    \/ RestartWorld

\* no text-generation backend is loaded and nothing was said yet
EngineInitIdle ==
    /\ engine_ready = FALSE
    /\ conversation = <<>>

InitWorld ==
    /\ StoryManagerInit
    /\ WorldManagerInit
    /\ EngineInitIdle
    /\ CharacterMemoryInit
    /\ resp = Resp("init", "none", <<>>)
    /\ tasks = <<>>

SpecWorld == InitWorld /\ [][NextWorld]_vars

\* the character stored before a generation request
GenCharacterNameInputs == {"Alice"}

NextGen ==
    \/ \E prompt \in PromptInputs : \E outcome \in EngineOutcomes :
          GeneratePlot(prompt, outcome)
    \/ \E prompt \in PromptInputs : \E n \in 0 .. MaxVariations :
          \E outcomes \in [1 .. n -> EngineOutcomes] :
              GenerateMultiplePlots(prompt, outcomes)
    \/ \E prompt \in PromptInputs : \E use_world_context \in BOOLEAN :
          \E story_id \in GenStoryIdInputs : \E chapter_number \in {0, 1} :
              \E use_character_memory \in BOOLEAN : \E outcome \in EngineOutcomes :
                  AdvancedGenerate(prompt, use_world_context, story_id,
                                   chapter_number, use_character_memory, outcome)
    \/ \E name \in GenCharacterNameInputs : PostCharacter(name, "d1", <<>>)

InitGen ==
    /\ StoryManagerInit
    /\ WorldManagerInit
    /\ EngineInit
    /\ CharacterMemoryInit
    /\ resp = Resp("init", "none", <<>>)
    /\ tasks = <<>>

SpecGen == InitGen /\ [][NextGen]_vars

\* the generation endpoints of main.py on their own
NextBasic ==
    \/ \E prompt \in PromptInputs : \E outcome \in EngineOutcomes :
          GeneratePlot(prompt, outcome)
    \/ \E prompt \in PromptInputs : \E n \in 0 .. MaxVariations :
          \E outcomes \in [1 .. n -> EngineOutcomes] :
              GenerateMultiplePlots(prompt, outcomes)
    \/ ClearConversationHistory

InitBasic ==
    /\ StoryManagerInit
    /\ WorldManagerInitEmpty
    /\ EngineInit
    /\ CharacterMemoryInit
    /\ resp = Resp("init", "none", <<>>)
    /\ tasks = <<>>

SpecBasic == InitBasic /\ [][NextBasic]_vars

\* n of get_recent_conversation(n)
NumMessagesInputs == 0 .. MaxConversation + 1

NextMemory ==
    \/ \E name \in CharacterNameInputs : \E description \in DescriptionInputs :
          \E traits \in TraitsInputs : PostCharacter(name, description, traits)
    \/ \E name \in CharacterNameInputs : GetCharacter(name)
    \/ \E name \in CharacterNameInputs : \E description \in DescriptionInputs :
          \E traits \in TraitsInputs : PutCharacter(name, description, traits)
    \/ \E name \in CharacterNameInputs : DeleteCharacter(name)
    \/ \E prompt \in PromptInputs : \E outcome \in EngineOutcomes :
          GeneratePlot(prompt, outcome)
    \/ \E n \in NumMessagesInputs : GetRecentConversation(n)
    \/ ClearConversationHistory

InitMemory ==
    /\ StoryManagerInit
    /\ WorldManagerInitEmpty
    /\ EngineInit
    /\ CharacterMemoryInit
    /\ resp = Resp("init", "none", <<>>)
    /\ tasks = <<>>

SpecMemory == InitMemory /\ [][NextMemory]_vars

\* ------------------------------------------------------------------------
\* Writing suggestions
\* ------------------------------------------------------------------------
\* one suggestion; number is the chapter's number, 0 for the progress suggestion
Suggestion(kind, number) == [kind |-> kind, number |-> number]

\* the tiers with the boundary value in the lower tier
ProgressSuggestionInclusive(story) ==
    IF 10 * story.current_word_count <= story.target_word_count
    THEN Suggestion("introduction", 0)
    ELSE IF 2 * story.current_word_count <= story.target_word_count
    THEN Suggestion("relationships", 0)
    ELSE IF 5 * story.current_word_count <= 4 * story.target_word_count
    THEN Suggestion("tension", 0)
    ELSE Suggestion("payoff", 0)

\* the progress check of get_writing_suggestions: current_word_count against
\* target_word_count * 0.1, * 0.5 and * 0.8; for the integer counts of the
\* model the float products compare as the exact ones do
ProgressSuggestion(story) ==
    IF 10 * story.current_word_count < story.target_word_count
    THEN Suggestion("introduction", 0)
    ELSE IF 2 * story.current_word_count < story.target_word_count
    THEN Suggestion("relationships", 0)
    ELSE IF 5 * story.current_word_count < 4 * story.target_word_count
    THEN Suggestion("tension", 0)
    ELSE Suggestion("payoff", 0)

\* the chapter check of get_writing_suggestions
RECURSIVE ChapterSuggestions(_)
ChapterSuggestions(chapters) ==
    IF chapters = <<>> THEN <<>>
    ELSE (IF Head(chapters).status = "PLANNED"
          THEN <<Suggestion("make_outline", Head(chapters).number)>>
          ELSE IF Head(chapters).status = "OUTLINE"
          THEN <<Suggestion("start_writing", Head(chapters).number)>>
          ELSE <<>>)
         \o ChapterSuggestions(Tail(chapters))

\* StoryManager.get_writing_suggestions for a stored story
WritingSuggestions(story) ==
    <<ProgressSuggestion(story)>> \o ChapterSuggestions(story.chapters)

\* GET /stories/{story_id}/suggestions
GetWritingSuggestions(story_id) ==
    /\ IF ~HasKey(stories, story_id)
       THEN resp' = Resp("get_writing_suggestions", "KeyError", Http(500, <<>>))
       ELSE resp' = Resp("get_writing_suggestions", "none",
                         Http(200,
                              [writing_suggestions |->
                                   WritingSuggestions(stories[KeyPos(stories, story_id)]),
                               consistency_issues |-> ConsistencyIssues(plot_threads),
                               story_id |-> story_id]))
    /\ UNCHANGED <<storyVars, worldVars, genVars>>

\* the first chapter that is being drafted, whatever the chapters before it are
CurrentChapterDraftingOnly(story) ==
    LET open == {k \in DOMAIN story.chapters : story.chapters[k].status = "DRAFTING"}
    IN IF open # {}
       THEN <<story.chapters[CHOOSE k \in open : \A l \in open : k <= l]>>
       ELSE IF story.chapters # <<>> THEN <<story.chapters[Len(story.chapters)]>>
       ELSE <<>>

\* current_chapter of get_current_chapter_context: <<>> for None
CurrentChapter(story) ==
    LET open == {k \in DOMAIN story.chapters :
                    story.chapters[k].status \in {"DRAFTING", "OUTLINE"}}
    IN IF open # {}
       THEN <<story.chapters[CHOOSE k \in open : \A l \in open : k <= l]>>
       ELSE IF story.chapters # <<>> THEN <<story.chapters[Len(story.chapters)]>>
       ELSE <<>>

\* the text of get_current_chapter_context: <<>> for "", else the heading of
\* the chapter and one block for each of its scenes with the scene's content
CurrentChapterContext(story) ==
    IF CurrentChapter(story) = <<>> THEN <<>>
    ELSE LET current_chapter == CurrentChapter(story)[1]
         IN <<[number |-> current_chapter.number,
               scenes |-> [k \in DOMAIN current_chapter.scenes |->
                              current_chapter.scenes[k].content]]>>

\* StoryManager.get_current_chapter_context
GetCurrentChapterContext(story_id) ==
    /\ IF ~HasKey(stories, story_id)
       THEN resp' = Resp("get_current_chapter_context", "KeyError", <<>>)
       ELSE resp' = Resp("get_current_chapter_context", "none",
                         CurrentChapterContext(stories[KeyPos(stories, story_id)]))
    /\ UNCHANGED <<storyVars, worldVars, genVars>>

\* target_word_count of a StoryRequest
TargetWordCountInputs == {1000}

\* POST /stories: create_story(request.title, request.genre, request.summary);
\* request.target_word_count is not passed on
PostStory(target_word_count, ts) == CreateStory(ts)

\* lengths of the contents written in the scenario of the writing suggestions
ScenarioContentLengths == {50, 600}

ScenarioContentInputs == {[k \in 1 .. n |-> "x"] : n \in ScenarioContentLengths}

NextScenario ==
    \/ \E target_word_count \in TargetWordCountInputs : \E ts \in clock .. MaxClock :
          PostStory(target_word_count, ts)
    \/ \E sid \in StoryIdInputs : AddChapter(sid)
    \/ \E sid \in StoryIdInputs : \E cn \in ChapterNumberInputs(sid) : AddScene(sid, cn)
    \/ \E sid \in StoryIdInputs : \E cn \in ChapterNumberInputs(sid) :
          \E si \in SceneIndexInputs(sid, cn) : \E content \in ScenarioContentInputs :
              UpdateSceneContent(sid, cn, si, content)
    \/ \E sid \in StoryIdInputs : GetWritingSuggestions(sid)

\* a story of two chapters with one empty scene each, as stories.json holds it
HandStory(target_word_count, status1, status2) ==
    LET story_id == StoryId(0, 0)
        chapter(number, status) ==
            [NewChapter(ChapterId(story_id, number), number) EXCEPT
                !.status = status,
                !.scenes = <<NewScene(SceneId(ChapterId(story_id, number), 1))>>]
    IN [NewStory(story_id) EXCEPT
           !.target_word_count = target_word_count,
           !.chapters = <<chapter(1, status1), chapter(2, status2)>>]

\* stories.json as found at startup: a story with a target of 10 characters
\* whose chapters are planned, in outline or being drafted, or that has no
\* chapter yet
HandStoriesFiles ==
    {SavedStoriesFile(<<HandStory(10, status1, status2)>>) :
        status1, status2 \in {"PLANNED", "OUTLINE", "DRAFTING"}}
    \cup {SavedStoriesFile(<<[NewStory(StoryId(0, 0)) EXCEPT !.target_word_count = 10]>>)}

\* StoryManager.__init__ on a data directory that holds stories.json
StoryManagerInitFile ==
    /\ stories_file \in HandStoriesFiles
    /\ stories = LoadStories(stories_file)
    /\ clock = 0
    /\ edited = FALSE

\* lengths of the contents written around the boundaries of a target of 10
SuggestContentLengths == {0, 1, 4, 5, 8}

SuggestContentInputs == {[k \in 1 .. n |-> "x"] : n \in SuggestContentLengths}

NextSuggest ==
    \/ \E sid \in StoryIdInputs : \E cn \in ChapterNumberInputs(sid) :
          \E si \in SceneIndexInputs(sid, cn) : \E content \in SuggestContentInputs :
              UpdateSceneContent(sid, cn, si, content)
    \/ \E sid \in StoryIdInputs : GetWritingSuggestions(sid)
    \/ \E sid \in StoryIdInputs : GetCurrentChapterContext(sid)

InitSuggest ==
    /\ StoryManagerInitFile
    /\ WorldManagerInitEmpty
    /\ EngineInitIdle
    /\ CharacterMemoryInit
    /\ resp = Resp("init", "none", <<>>)
    /\ tasks = <<>>

SpecSuggest == InitSuggest /\ [][NextSuggest]_vars

InitStories ==
    /\ StoryManagerInit
    /\ WorldManagerInitEmpty
    /\ EngineInitIdle
    /\ CharacterMemoryInit
    /\ resp = Resp("init", "none", <<>>)
    /\ tasks = <<>>

NextStories ==
    \/ \E ts \in clock .. MaxClock : CreateStory(ts)
    \/ \E sid \in StoryIdInputs : AddChapter(sid)
    \/ \E sid \in StoryIdInputs : \E cn \in ChapterNumberInputs(sid) : AddScene(sid, cn)
    \/ \E sid \in StoryIdInputs : \E cn \in ChapterNumberInputs(sid) :
          \E si \in SceneIndexInputs(sid, cn) : \E content \in ContentInputs :
              UpdateSceneContent(sid, cn, si, content)
    \/ \E i \in DOMAIN stories_file.data :
          \E j \in DOMAIN stories_file.data[i].chapters : \E s \in StatusStrings :
              EditStoriesFile(i, j, s)
    \/ RestartStories

SpecStories == InitStories /\ [][NextStories]_vars

SpecScenario == InitStories /\ [][NextScenario]_vars

\* events and plot threads with related characters, and the context of a character
NextRelevant ==
    \/ \E year \in {100, 300} :
          \E related_characters \in {<<>>, <<"Alice">>, <<"Alice", "Bob">>} :
              \E name \in EventNameInputs :
                  PostTimelineEvent(name, year, 3, related_characters)
    \/ \E name \in PlotNameInputs :
          \E related_characters \in {<<>>, <<"Alice">>, <<"Alice", "Bob">>} :
              PostPlotThread(name, related_characters)
    \/ \E character_names \in {<<>>, <<"Alice">>, <<"Bob">>} :
          GetCharacterRelevantContext(character_names)

SpecRelevant == InitStories /\ [][NextRelevant]_vars

\* ------------------------------------------------------------------------
\* Two requests in flight: the handlers of advanced_main.py as tasks of the
\* one event loop uvicorn.run(app) starts
\* ------------------------------------------------------------------------
\* the mutating requests two clients send at the same moment
RequestInputs ==
    {[op |-> "post_setting", name |-> "N1", year |-> 0, story_id |-> <<>>]}
    \cup {[op |-> "post_timeline", name |-> n, year |-> y, story_id |-> <<>>] :
             n \in EventNameInputs, y \in {100, 300}}
    \cup {[op |-> "add_chapter", name |-> "", year |-> 0, story_id |-> sid] :
             sid \in StoryIdInputs}

\* two requests arrive while no handler has work left: each becomes a task
Arrive(r1, r2) ==
    /\ tasks = <<>>
    /\ WorldEntities + 2 <= MaxWorldEntities
    /\ Entities(stories) + 2 <= MaxEntities
    /\ tasks' = <<[request |-> r1, pc |-> "accepted", id |-> <<>>, error |-> "none"],
                  [request |-> r2, pc |-> "accepted", id |-> <<>>, error |-> "none"]>>
    /\ UNCHANGED <<storyVars, worldVars, engine_ready, conversation, characters,
                   memory_file, resp>>

\* a loop that may leave a handler half-way and run another task
MayRunAnywhere(k) == TRUE

\* the loop runs task k: the handlers are `async def` bodies without an
\* await, so no other handler is between its first and its last statement
MayRun(k) == \A j \in DOMAIN tasks : tasks[j].pc # "running"

\* the first statements of a handler: the id, or the chapter number, is made
\* from the size of the collection
Begin(k) ==
    /\ tasks[k].pc = "accepted"
    /\ MayRun(k)
    /\ LET r == tasks[k].request
       IN tasks' =
            [tasks EXCEPT ![k] =
               IF r.op = "post_setting"
               THEN [@ EXCEPT !.pc = "running", !.id = <<SettingId(Len(settings))>>]
               ELSE IF r.op = "post_timeline"
               THEN [@ EXCEPT !.pc = "running", !.id = <<EventId(Len(timeline))>>]
               ELSE IF ~HasKey(stories, r.story_id)
               THEN [@ EXCEPT !.pc = "done", !.error = "ValueError"]
               ELSE [@ EXCEPT !.pc = "running",
                              !.id = <<ChapterNumber(stories[KeyPos(stories, r.story_id)])>>]]
    /\ UNCHANGED <<storyVars, worldVars, engine_ready, conversation, characters,
                   memory_file, resp>>

\* the last statements of a handler: the entity is stored, the files are
\* written and the answer is made
Finish(k) ==
    /\ tasks[k].pc = "running"
    /\ LET r == tasks[k].request
           id == tasks[k].id[1]
           error == IF r.op = "add_chapter" THEN "none"
                    ELSE IF r.op = "post_setting"
                    THEN (IF DumpRaises(DictSet(settings, id,
                                                WorldSetting(id, r.name, "GEOGRAPHY")))
                          THEN "TypeError" ELSE "none")
                    ELSE IF DumpRaises(settings) THEN "TypeError" ELSE "none"
       IN /\ IF r.op = "post_setting"
             THEN AddSetting(WorldSetting(id, r.name, "GEOGRAPHY")) /\ UNCHANGED storyVars
             ELSE IF r.op = "post_timeline"
             THEN /\ AddTimelineEvent(TimelineEvent(id, r.name, r.year, 3, <<>>))
                  /\ UNCHANGED storyVars
             ELSE LET p == KeyPos(stories, r.story_id)
                      after == [stories EXCEPT ![p].chapters =
                                   Append(@, NewChapter(ChapterId(r.story_id, id), id))]
                  IN /\ stories' = after
                     /\ stories_file' = SavedStoriesFile(after)
                     /\ UNCHANGED <<clock, edited, worldVars>>
          /\ tasks' = [tasks EXCEPT ![k].pc = "done", ![k].error = error]
          /\ resp' = Resp(r.op, error, <<>>)
    /\ UNCHANGED <<engine_ready, conversation, characters, memory_file>>

\* both answers are sent
Respond ==
    /\ tasks # <<>>
    /\ \A k \in DOMAIN tasks : tasks[k].pc = "done"
    /\ tasks' = <<>>
    /\ UNCHANGED <<storyVars, worldVars, engine_ready, conversation, characters,
                   memory_file, resp>>

NextConcurrent ==
    \/ tasks = <<>> /\ \E ts \in clock .. MaxClock : CreateStory(ts)
    \/ \E r1, r2 \in RequestInputs : Arrive(r1, r2)
    \/ \E k \in DOMAIN tasks : Begin(k)
    \/ \E k \in DOMAIN tasks : Finish(k)
    \/ Respond

SpecConcurrent == InitStories /\ [][NextConcurrent]_vars

\* ------------------------------------------------------------------------
\* Properties of the story manager
\* ------------------------------------------------------------------------
\* len(scene.content) summed over the scenes of a chapter
ChapterContentLength(ch) == SumSeq([k \in DOMAIN ch.scenes |-> Len(ch.scenes[k].content)])

\* len(scene.content) summed over all scenes of all chapters of a story
StoryContentLength(st) ==
    SumSeq([j \in DOMAIN st.chapters |-> ChapterContentLength(st.chapters[j])])

\* C1: in every reachable state every story's current_word_count is the sum
\* of len(scene.content) over all scenes of all its chapters, and every
\* chapter's actual_word_count is that sum over its own scenes.
C1_WordCountsAreSums ==
    \A i \in DOMAIN stories :
        /\ stories[i].current_word_count = StoryContentLength(stories[i])
        /\ \A j \in DOMAIN stories[i].chapters :
              stories[i].chapters[j].actual_word_count =
                  ChapterContentLength(stories[i].chapters[j])

\* a content update has just left a story with two scenes that hold text
C1_Witness ==
    /\ resp.op = "update_scene_content"
    /\ resp.error = "none"
    /\ \E i \in DOMAIN stories : stories[i].current_word_count >= 2

\* C2: create_story returns an id that is no key of the collection before
\* the call, leaves every stored story as it was, and the new story is stored
\* under the id with current_word_count 0 and no chapters.
C2_CreateStoryFreshId ==
    [][resp'.op = "create_story" =>
          /\ ~HasKey(stories, resp'.body)
          /\ Len(stories') = Len(stories) + 1
          /\ \A i \in DOMAIN stories : stories'[i] = stories[i]
          /\ HasKey(stories', resp'.body)
          /\ LET st == stories'[KeyPos(stories', resp'.body)]
             IN st.current_word_count = 0 /\ st.chapters = <<>>]_vars

\* a second story was created, within the same second as the first
C2_Witness ==
    /\ resp.op = "create_story"
    /\ Len(stories) = 2
    /\ stories[1].id[3] = stories[2].id[3]

\* add_scene(story_id, chapter_number) appended exactly one scene to chapter
\* number chapter_number of that story and changed nothing else
AppendedOneScene(story_id, chapter_number) ==
    LET p == KeyPos(stories, story_id)
    IN /\ Len(stories') = Len(stories)
       /\ \A i \in DOMAIN stories : i # p => stories'[i] = stories[i]
       /\ Len(stories'[p].chapters) = Len(stories[p].chapters)
       /\ \A j \in DOMAIN stories[p].chapters :
             LET before == stories[p].chapters[j].scenes
                 after == stories'[p].chapters[j].scenes
             IN IF j = chapter_number
                THEN Len(after) = Len(before) + 1 /\ SubSeq(after, 1, Len(before)) = before
                ELSE after = before

\* C3: add_scene fails and appends no scene whenever story_id is not stored
\* or chapter_number is outside 1..len(story.chapters); otherwise it appends
\* exactly one scene to chapter number chapter_number.
C3_AddSceneRange ==
    [][\A sid \in StoryIdInputs : \A cn \in ChapterNumberInputs(sid) :
          AddScene(sid, cn) =>
              IF \/ ~HasKey(stories, sid)
                 \/ cn < 1
                 \/ cn > Len(stories[KeyPos(stories, sid)].chapters)
              THEN resp'.error # "none" /\ stories' = stories
              ELSE resp'.error = "none" /\ AppendedOneScene(sid, cn)]_vars

\* C4: saving the stories and loading the saved file in a fresh manager
\* yields the same collection: ids, chapters, scenes, word counts, statuses.
C4_StoriesRoundTrip == LoadStories(SavedStoriesFile(stories)) = stories

\* a restart has read back a file equal to what save_stories writes, with a
\* chapter that is not PLANNED and a scene that holds text
C4_Witness ==
    /\ resp.op = "restart"
    /\ stories_file = SavedStoriesFile(stories)
    /\ \E i \in DOMAIN stories : \E j \in DOMAIN stories[i].chapters :
          /\ stories[i].chapters[j].status # "PLANNED"
          /\ \E k \in DOMAIN stories[i].chapters[j].scenes :
                stories[i].chapters[j].scenes[k].content # <<>>

\* ------------------------------------------------------------------------
\* Properties of the world manager
\* ------------------------------------------------------------------------
\* C5: every setting added through add_setting is present after a restart,
\* with the same SettingType member as its type.
C5_SettingsSurviveRestart ==
    [][resp'.op = "restart_world" =>
          \A i \in DOMAIN settings :
              settings[i].type \in SettingType =>
                  /\ HasKey(settings', settings[i].id)
                  /\ settings'[KeyPos(settings', settings[i].id)].type = settings[i].type]_vars

\* some chapter of the stored story carries a status string that is no
\* ChapterStatus value
HasUnrecognizedStatus(sd) ==
    \E j \in DOMAIN sd.chapters : ChapterStatusOf(sd.chapters[j].status) = "ValueError"

\* C6: after a load, an entity whose stored enum string is not recognized is
\* not in memory, and every other entity of the same file is.
C6_UnrecognizedEnumFailsEntity ==
    /\ (resp.op = "restart_world" /\ settings_file.valid) =>
           \A i \in DOMAIN settings_file.data :
               IF SettingTypeOf(settings_file.data[i].type) = "ValueError"
               THEN ~HasKey(settings, settings_file.data[i].id)
               ELSE HasKey(settings, settings_file.data[i].id)
    /\ (resp.op = "restart" /\ stories_file.exists) =>
           \A i \in DOMAIN stories_file.data :
               IF HasUnrecognizedStatus(stories_file.data[i])
               THEN ~HasKey(stories, stories_file.data[i].id)
               ELSE HasKey(stories, stories_file.data[i].id)

\* C7: get_world_context() returns a text with the name of every stored
\* setting and an entry for every event of importance >= 3, and its event
\* entries are no more than those.
C7_WorldContextContents ==
    resp.op = "get_world_context" =>
        /\ resp.error = "none"
        /\ \A i \in DOMAIN settings :
              \E k \in DOMAIN resp.body :
                  resp.body[k].kind = "setting" /\ resp.body[k].name = settings[i].name
        /\ \A i \in DOMAIN timeline :
              timeline[i].importance >= 3 =>
                  \E k \in DOMAIN resp.body :
                      /\ resp.body[k].kind = "event"
                      /\ resp.body[k].name = timeline[i].name
                      /\ resp.body[k].year = timeline[i].year
        /\ Cardinality({k \in DOMAIN resp.body : resp.body[k].kind = "event"}) =
               Cardinality({i \in DOMAIN timeline : timeline[i].importance >= 3})

\* a data file holds a JSON document with exactly the entities of a collection
HoldsCollection(file, collection) ==
    /\ file.exists
    /\ file.valid
    /\ Len(file.data) = Len(collection)
    /\ \A i \in DOMAIN collection :
          file.data[i].id = collection[i].id /\ file.data[i].name = collection[i].name

\* C16: a call of add_setting, add_timeline_event or add_plot_thread (file
\* I/O never fails here) returns without error, whatever is stored, and then
\* each of the three files holds the in-memory collection.
C16_AddPersistsAll ==
    [][(/\ resp'.op \in {"post_setting", "post_timeline", "post_plot"}
        /\ resp'.error # "ValueError") =>
           /\ resp'.error = "none"
           /\ HoldsCollection(settings_file', settings')
           /\ HoldsCollection(timeline_file', timeline')
           /\ HoldsCollection(plots_file', plot_threads')]_vars

\* the threads check_consistency is to report
UnresolvedThreads ==
    {i \in DOMAIN plot_threads :
        plot_threads[i].status = "active" /\ plot_threads[i].payoff_events = <<>>}

\* C8: check_consistency returns one message for each active thread without
\* payoff events, none for any other thread, and changes no collection.
C8_ConsistencyMessages ==
    [][resp'.op = "check_consistency" =>
          /\ Len(resp'.body) = Cardinality(UnresolvedThreads)
          /\ \A i \in DOMAIN plot_threads :
                Cardinality({k \in DOMAIN resp'.body : resp'.body[k] = plot_threads[i].name}) =
                    Cardinality({u \in UnresolvedThreads :
                                    plot_threads[u].name = plot_threads[i].name})
          /\ UNCHANGED worldVars]_vars

\* the check ran over an active thread with a payoff and one without
C8_Witness ==
    /\ resp.op = "check_consistency"
    /\ \E i \in DOMAIN plot_threads :
          plot_threads[i].status = "active" /\ plot_threads[i].payoff_events # <<>>
    /\ UnresolvedThreads # {}

\* C9: GET /world/timeline returns every stored event, by year ascending,
\* events of the same year in the order they were added.
C9_TimelineOrder ==
    resp.op = "get_timeline" =>
        LET out == resp.body.content
        IN /\ Len(out) = Len(timeline)
           /\ \A i \in DOMAIN timeline : \E k \in DOMAIN out : out[k] = timeline[i]
           /\ \A k, l \in DOMAIN out :
                 k < l =>
                     /\ out[k].year <= out[l].year
                     /\ out[k].year = out[l].year =>
                            KeyPos(timeline, out[k].id) < KeyPos(timeline, out[l].id)

\* the listing was taken of three events, the first and the third of one
\* year and the second of an earlier one
C9_Witness ==
    /\ resp.op = "get_timeline"
    /\ Len(timeline) = 3
    /\ timeline[1].year = timeline[3].year
    /\ timeline[2].year < timeline[1].year
    /\ timeline[1].name # timeline[3].name

\* ------------------------------------------------------------------------
\* Properties of the generation endpoints
\* ------------------------------------------------------------------------
\* C10: a generation request that finds the backend not ready is answered
\* with status 503 and makes no call of the backend's generate.
C10_NotReadyIs503 ==
    (resp.op \in {"generate", "generate_multiple", "generate_advanced"} /\ ~engine_ready) =>
        resp.body.status = 503 /\ resp.body.generate_calls = 0

\* the blocks of the prompt a successful POST /generate/advanced assembled
FinalPrompt == resp.body.content.final_prompt

\* positions of the blocks of one kind in the assembled prompt
BlocksOfKind(kind) == {k \in DOMAIN FinalPrompt : FinalPrompt[k].kind = kind}

\* C11: a prompt assembled for a request with use_world_context and
\* use_character_memory, while no character is stored, has no character block,
\* so the sentinel is in none of its blocks, and has the world block with the
\* text of get_world_context.
C11_NoSentinelInPrompt ==
    (/\ resp.op = "generate_advanced"
     /\ resp.error = "none"
     /\ resp.body.content.context_used.world_context
     /\ resp.body.content.context_used.character_memory
     /\ characters = <<>>) =>
        /\ BlocksOfKind("character") = {}
        /\ \E k \in BlocksOfKind("world") :
              FinalPrompt[k].text = WorldContextLines(settings, timeline, plot_threads)

\* such a prompt was assembled while a plot thread was stored
C11_Witness ==
    /\ resp.op = "generate_advanced"
    /\ resp.error = "none"
    /\ resp.body.content.context_used.world_context
    /\ resp.body.content.context_used.character_memory
    /\ characters = <<>>
    /\ plot_threads # <<>>
    /\ BlocksOfKind("world") # {}

\* names of the stored characters, in the order of the store
StoredNames == [k \in DOMAIN characters |-> characters[k].id]

\* C17: the prompt of POST /generate/advanced holds the world, story and
\* character blocks in that order before the instruction, and with
\* use_character_memory and a stored character it holds the character block
\* of the stored characters.
C17_CharacterBlockInPrompt ==
    (resp.op = "generate_advanced" /\ resp.error = "none") =>
        /\ \A k, l \in DOMAIN FinalPrompt :
              (k < l) =>
                  /\ FinalPrompt[l].kind = "world" => FALSE
                  /\ FinalPrompt[k].kind = "instruction" => FALSE
                  /\ FinalPrompt[k].kind = "character" => FinalPrompt[l].kind = "instruction"
        /\ (resp.body.content.context_used.character_memory /\ characters # <<>>) =>
              \E k \in BlocksOfKind("character") :
                  FinalPrompt[k].text = GetCharacterMemoryString(characters, StoredNames)

\* the two turns one generation adds to the transcript
Turns(user_text, ai_text) ==
    <<[type |-> "human", content |-> user_text], [type |-> "ai", content |-> ai_text]>>

\* C12: a successful generation request appends (human: user text, ai:
\* generated text) to the transcript, once for POST /generate and POST
\* /generate/advanced and once per variation for POST /generate/multiple; a
\* failed one leaves the transcript as it was.
C12_TranscriptGrows ==
    [][/\ resp'.op = "generate" =>
          \A prompt \in PromptInputs : \A outcome \in EngineOutcomes :
             GeneratePlot(prompt, outcome) =>
                 conversation' = IF resp'.error = "none"
                                 THEN conversation \o Turns(prompt, outcome)
                                 ELSE conversation
       /\ resp'.op = "generate_multiple" =>
          \A prompt \in PromptInputs : \A n \in 0 .. MaxVariations :
             \A outcomes \in [1 .. n -> EngineOutcomes] :
                 GenerateMultiplePlots(prompt, outcomes) =>
                     /\ Len(conversation') =
                            IF resp'.error = "none" THEN Len(conversation) + 2 * n
                            ELSE Len(conversation)
                     /\ SubSeq(conversation', 1, Len(conversation)) = conversation
                     /\ \A k \in 1 .. Len(conversation') - Len(conversation) :
                           LET turn == conversation'[Len(conversation) + k]
                           IN IF k % 2 = 1 THEN turn.type = "human"
                              ELSE turn = [type |-> "ai", content |-> outcomes[k \div 2]]
       /\ resp'.op = "generate_advanced" =>
             conversation' = IF resp'.error = "none"
                             THEN conversation
                                      \o Turns(resp'.body.content.final_prompt[
                                                   Len(resp'.body.content.final_prompt)].text,
                                               resp'.body.content.response)
                             ELSE conversation]_vars

\* C14: with the backend ready, POST /generate/multiple for N variations
\* either returns the N variations numbered 1..N in order after N backend
\* calls, or stops at the first failing call and returns one error without
\* any variation.
C14_NoPartialSuccess ==
    [][(engine_ready /\ resp'.op = "generate_multiple") =>
       \A prompt \in PromptInputs : \A n \in 0 .. MaxVariations :
          \A outcomes \in [1 .. n -> EngineOutcomes] :
              GenerateMultiplePlots(prompt, outcomes) =>
                  LET failed == {i \in 1 .. n : outcomes[i] = "RuntimeError"}
                  IN IF failed = {}
                     THEN /\ resp'.error = "none"
                          /\ resp'.body.status = 200
                          /\ Len(resp'.body.content) = n
                          /\ \A i \in 1 .. n :
                                /\ resp'.body.content[i].variation = i
                                /\ resp'.body.content[i].response = outcomes[i]
                          /\ resp'.body.generate_calls = n
                     ELSE /\ resp'.error # "none"
                          /\ resp'.body.status = 500
                          /\ resp'.body.content = <<>>
                          /\ \A i \in failed : resp'.body.generate_calls <= i
                          /\ resp'.body.generate_calls \in failed]_vars

\* a request for two variations failed at the second one
C14_Witness ==
    /\ resp.op = "generate_multiple"
    /\ resp.error = "RuntimeError"
    /\ resp.body.generate_calls = 2

\* in every story the i-th chapter has number i and no two chapters share an id
ChaptersNumbered(ss) ==
    \A i \in DOMAIN ss :
        /\ \A j \in DOMAIN ss[i].chapters : ss[i].chapters[j].number = j
        /\ \A j, k \in DOMAIN ss[i].chapters :
              j # k => ss[i].chapters[j].id # ss[i].chapters[k].id

\* C20: add_chapter fails and changes nothing when story_id is not stored;
\* otherwise it appends one chapter whose number is the chapter count before
\* the call plus 1; after every step the i-th chapter of every story has
\* number i and the chapter ids within a story are pairwise distinct.
C20_ChapterNumbers ==
    [][/\ ChaptersNumbered(stories')
       /\ resp'.op = "add_chapter" =>
          \A sid \in StoryIdInputs :
             AddChapter(sid) =>
                 IF ~HasKey(stories, sid)
                 THEN /\ resp'.error = "ValueError"
                      /\ stories' = stories
                      /\ stories_file' = stories_file
                 ELSE LET p == KeyPos(stories, sid)
                          before == stories[p].chapters
                          after == stories'[p].chapters
                      IN /\ resp'.error = "none"
                         /\ Len(stories') = Len(stories)
                         /\ \A i \in DOMAIN stories : i # p => stories'[i] = stories[i]
                         /\ Len(after) = Len(before) + 1
                         /\ SubSeq(after, 1, Len(before)) = before
                         /\ after[Len(after)].number = Len(before) + 1]_vars

\* a second chapter was added to a story
C20_Witness ==
    /\ resp.op = "add_chapter"
    /\ resp.error = "none"
    /\ \E i \in DOMAIN stories : Len(stories[i].chapters) = 2

\* the story a successful GET /stories/{story_id}/suggestions was about
SuggestedStory == stories[KeyPos(stories, resp.body.content.story_id)]

\* the suggestions that request returned
Suggested == resp.body.content.writing_suggestions

\* C13: every story was created by a request with target_word_count = 1000;
\* once its content holds 50 characters the suggestion is the one to expand
\* the introduction, and once it holds 600 characters it is the one to raise
\* the tension.
C13_ScenarioSuggestions ==
    (resp.op = "get_writing_suggestions" /\ resp.error = "none") =>
        /\ SuggestedStory.current_word_count = 50 =>
               Suggested[1].kind = "introduction"
        /\ SuggestedStory.current_word_count = 600 =>
               Suggested[1].kind = "tension"

\* the chapters get_writing_suggestions is to mention: planned or in outline
OpenChapters(story) ==
    SelectSeq(story.chapters, LAMBDA ch : ch.status \in {"PLANNED", "OUTLINE"})

\* the tier of a story's progress, by percent of the target
ProgressTier(story) ==
    LET current == 100 * story.current_word_count
        target == story.target_word_count
    IN IF current < 10 * target THEN "introduction"
       ELSE IF current < 50 * target THEN "relationships"
       ELSE IF current < 80 * target THEN "tension"
       ELSE "payoff"

\* C19: get_writing_suggestions returns the progress suggestion of the tier
\* the word count falls into (boundaries in the higher tier), then one
\* suggestion for each planned or outline chapter, in chapter order, and
\* nothing else.
C19_SuggestionTiers ==
    (resp.op = "get_writing_suggestions" /\ resp.error = "none") =>
        /\ Len(Suggested) = 1 + Len(OpenChapters(SuggestedStory))
        /\ Suggested[1] = Suggestion(ProgressTier(SuggestedStory), 0)
        /\ \A k \in DOMAIN OpenChapters(SuggestedStory) :
              /\ Suggested[k + 1].number = OpenChapters(SuggestedStory)[k].number
              /\ Suggested[k + 1].kind =
                     IF OpenChapters(SuggestedStory)[k].status = "PLANNED"
                     THEN "make_outline" ELSE "start_writing"

\* suggestions were given for a story that stands exactly at 50% of its
\* target, with a chapter in outline and one being drafted
C19_Witness ==
    /\ resp.op = "get_writing_suggestions"
    /\ resp.error = "none"
    /\ 2 * SuggestedStory.current_word_count = SuggestedStory.target_word_count
    /\ SuggestedStory.current_word_count > 0
    /\ \E j \in DOMAIN SuggestedStory.chapters : SuggestedStory.chapters[j].status = "OUTLINE"
    /\ \E j \in DOMAIN SuggestedStory.chapters : SuggestedStory.chapters[j].status = "DRAFTING"

\* character_names of a request: None or the empty list (<<>>), else a list
NameListInputs == UNION {[1 .. n -> CharacterNameInputs] : n \in 0 .. MaxNames}

\* the methods of CharacterMemoryManager that read and write the profiles
NextCharacters ==
    \/ \E name \in {"Alice", "Bob"} : \E traits \in TraitsInputs :
          AddCharacter(name, "d1", traits, <<"">>, <<>>)
    \/ \E name \in {"Alice", "Carol"} : \E description \in OptionalDescriptionInputs :
          \E traits \in TraitsInputs : \E background \in BackgroundInputs :
              \E relationships \in RelationshipsInputs :
                  UpdateCharacter(name, description, traits, background, relationships)
    \/ \E name \in CharacterNameInputs : AddCharacterDevelopment(name, "n1")

SpecCharacters == InitStories /\ [][NextCharacters]_vars

\* profiles are added and the memory string of a list of names is asked for
NextMemoryString ==
    \/ \E name \in CharacterNameInputs : \E traits \in TraitsInputs :
          \E background \in {<<"">>, <<"b1">>} :
              AddCharacter(name, "d1", traits, background, <<>>)
    \/ \E character_names \in NameListInputs : GetCharacterMemory(character_names)

SpecMemoryString == InitStories /\ [][NextMemoryString]_vars

\* ------------------------------------------------------------------------
\* Properties of the character memory
\* ------------------------------------------------------------------------
\* the character store and its file are as they were
CharactersUnchanged == characters' = characters /\ memory_file' = memory_file

\* C15: GET, PUT and DELETE /characters/{name} for a name that is not stored
\* answer 404 and leave the store as it was; DELETE for a stored name removes
\* that character, keeps every other one as it was, and leaves the name
\* unknown to the store (so a GET that follows answers 404).
C15_CharacterNotFoundAndDelete ==
    [][\A name \in CharacterNameInputs :
          /\ (/\ resp'.op = "get_character"
              /\ ~HasKey(characters, name)
              /\ GetCharacter(name)) =>
                 resp'.body.status = 404 /\ CharactersUnchanged
          /\ \A description \in DescriptionInputs : \A traits \in TraitsInputs :
                 (/\ resp'.op = "put_character"
                  /\ ~HasKey(characters, name)
                  /\ PutCharacter(name, description, traits)) =>
                     resp'.body.status = 404 /\ CharactersUnchanged
          /\ (resp'.op = "delete_character" /\ DeleteCharacter(name)) =>
                 IF ~HasKey(characters, name)
                 THEN resp'.body.status = 404 /\ CharactersUnchanged
                 ELSE /\ resp'.body.status = 200
                      /\ ~HasKey(characters', name)
                      /\ Len(characters') = Len(characters) - 1
                      /\ \A i \in DOMAIN characters :
                            characters[i].id # name =>
                                \E k \in DOMAIN characters' : characters'[k] = characters[i]]_vars

\* one of two stored characters was deleted
C15_Witness ==
    /\ resp.op = "delete_character"
    /\ resp.error = "none"
    /\ Len(characters) = 1

\* the last k turns of a transcript, oldest first (k <= Len(messages))
LastTurns(messages, k) == SubSeq(messages, Len(messages) - k + 1, Len(messages))

\* the smaller of two numbers
Min(a, b) == IF a <= b THEN a ELSE b

\* C18: get_recent_conversation(n) returns the last min(n, length) turns of
\* the transcript, oldest first, and leaves the transcript as it was.
C18_RecentConversation ==
    [][\A n \in NumMessagesInputs :
          (resp'.op = "get_recent_conversation" /\ GetRecentConversation(n)) =>
              /\ resp'.body =
                     ConversationText(LastTurns(conversation, Min(n, Len(conversation))))
              /\ conversation' = conversation]_vars

RequestedStored(character_names) ==
    SelectSeq(character_names, LAMBDA n : HasKey(characters, n))

\* the blocks of a list of stored names, one after the other
RECURSIVE BlocksOf(_)
BlocksOf(names) ==
    IF names = <<>> THEN <<>>
    ELSE CharInfo(characters[KeyPos(characters, Head(names))]) \o BlocksOf(Tail(names))

\* C22: get_character_memory_string(names) returns the "no character info"
\* sentinel exactly when the list is empty or absent or none of its names is
\* stored; otherwise it returns one block for each requested name that is
\* stored, in the order of the request.
C22_MemoryString ==
    (resp.op = "get_character_memory_string") =>
        LET character_names == resp.body.character_names
        IN /\ (resp.body.text = <<NoCharacterInfo>>) <=>
                  (character_names = <<>> \/ RequestedStored(character_names) = <<>>)
           /\ (RequestedStored(character_names) # <<>>) =>
                  resp.body.text = BlocksOf(RequestedStored(character_names))

\* the string holds the blocks of two stored characters, in the order of the
\* request, which is not the order of the store
C22_Witness ==
    /\ resp.op = "get_character_memory_string"
    /\ Len(characters) = 2
    /\ resp.body.character_names = <<characters[2].id, characters[1].id>>
    /\ resp.body.text # <<NoCharacterInfo>>
    /\ resp.body.text[1] = characters[2].id

\* ------------------------------------------------------------------------
\* Properties of the chapter context
\* ------------------------------------------------------------------------
\* C23: get_current_chapter_context of a stored story renders the first
\* chapter, in chapter order, that is being drafted or in outline; when there
\* is none it renders the last chapter; it returns the empty string when the
\* story has no chapter; the scenes are rendered with their content and the
\* story is left as it was.
C23_CurrentChapter ==
    [][(resp'.op = "get_current_chapter_context") =>
          \A sid \in StoryIdInputs :
             (HasKey(stories, sid) /\ GetCurrentChapterContext(sid)) =>
                LET chapters == stories[KeyPos(stories, sid)].chapters
                    isOpen(k) == chapters[k].status \in {"DRAFTING", "OUTLINE"}
                    rendered(k) ==
                        /\ Len(resp'.body) = 1
                        /\ resp'.body[1].number = chapters[k].number
                        /\ Len(resp'.body[1].scenes) = Len(chapters[k].scenes)
                        /\ \A i \in DOMAIN chapters[k].scenes :
                              resp'.body[1].scenes[i] = chapters[k].scenes[i].content
                IN /\ resp'.error = "none"
                   /\ stories' = stories
                   /\ stories_file' = stories_file
                   /\ (chapters = <<>>) => resp'.body = <<>>
                   /\ \A k \in DOMAIN chapters :
                         (isOpen(k) /\ \A l \in 1 .. k - 1 : ~isOpen(l)) => rendered(k)
                   /\ (chapters # <<>> /\ \A l \in DOMAIN chapters : ~isOpen(l)) =>
                         rendered(Len(chapters))]_vars

\* the context renders the second chapter, in outline, after a chapter that
\* is only planned, with the content written to its scene
C23_Witness ==
    /\ resp.op = "get_current_chapter_context"
    /\ resp.error = "none"
    /\ resp.body # <<>>
    /\ resp.body[1].number = 2
    /\ resp.body[1].scenes # <<>>
    /\ resp.body[1].scenes[1] # <<>>
    /\ \E k \in DOMAIN stories :
          /\ Len(stories[k].chapters) = 2
          /\ stories[k].chapters[1].status = "PLANNED"
          /\ stories[k].chapters[2].status = "OUTLINE"

\* ------------------------------------------------------------------------
\* Properties of the context of a character
\* ------------------------------------------------------------------------
\* the entries of one kind of a rendered context, in their order
LinesOfKind(lines, kind) == SelectSeq(lines, LAMBDA l : l.kind = kind)

\* the entities of a collection that share a character with the names
Matching(collection, character_names) ==
    SelectSeq(collection, LAMBDA e :
        {e.related_characters[k] : k \in DOMAIN e.related_characters}
            \cap {character_names[k] : k \in DOMAIN character_names} # {})

\* the place of the k-th entity among the entities ordered by year, entities
\* of one year in the order they have in the sequence
YearRank(events, k) ==
    1 + Cardinality({j \in DOMAIN events :
                        \/ events[j].year < events[k].year
                        \/ events[j].year = events[k].year /\ j < k})

\* the plot entries of the context are those of the matching plot threads,
\* in the order of the collection
PlotEntriesAsInserted(character_names) ==
    LET plots == Matching(plot_threads, character_names)
        shown == LinesOfKind(resp'.body, "plot")
    IN /\ Len(shown) = Len(plots)
       /\ \A k \in DOMAIN plots : shown[k] = Line("plot", plots[k].name, 0, plots[k].status)

\* C24 as stated: get_character_relevant_context(names) lists exactly the
\* events and the plot threads whose related_characters share a name with
\* names, both in the order of the underlying collections (insertion order).
C24_RelevantInsertionOrder ==
    [][(resp'.op = "get_character_relevant_context") =>
          \A character_names \in {<<>>, <<"Alice">>, <<"Bob">>} :
             GetCharacterRelevantContext(character_names) =>
                LET events == Matching(timeline, character_names)
                    shown == LinesOfKind(resp'.body, "event")
                IN /\ Len(shown) = Len(events)
                   /\ \A k \in DOMAIN events :
                         shown[k] = Line("event", events[k].name, events[k].year, "")
                   /\ PlotEntriesAsInserted(character_names)]_vars

\* C24 as amended: get_character_relevant_context(names) lists exactly the
\* events and the plot threads whose related_characters share a name with
\* names; the events by ascending year, events of one year in insertion
\* order, and the plot threads in insertion order.
C24_RelevantByYear ==
    [][(resp'.op = "get_character_relevant_context") =>
          \A character_names \in {<<>>, <<"Alice">>, <<"Bob">>} :
             GetCharacterRelevantContext(character_names) =>
                LET events == Matching(timeline, character_names)
                    shown == LinesOfKind(resp'.body, "event")
                IN /\ Len(shown) = Len(events)
                   /\ \A k \in DOMAIN events :
                         shown[YearRank(events, k)] =
                             Line("event", events[k].name, events[k].year, "")
                   /\ PlotEntriesAsInserted(character_names)]_vars

\* the context lists two matching events, the one of the earlier year first
\* although it was inserted last, and a matching plot thread; an event that
\* does not match is left out
C24_Witness ==
    /\ resp.op = "get_character_relevant_context"
    /\ Len(LinesOfKind(resp.body, "event")) = 2
    /\ LinesOfKind(resp.body, "event")[1].year < LinesOfKind(resp.body, "event")[2].year
    /\ Len(timeline) >= 2
    /\ timeline[1].year = 300
    /\ timeline[1].related_characters # <<>>
    /\ LinesOfKind(resp.body, "plot") # <<>>

\* ------------------------------------------------------------------------
\* Properties of the generation endpoints as readers
\* ------------------------------------------------------------------------
\* C25: no request to a generation endpoint, answered or failed, changes the
\* settings, the timeline, the plot threads, the stories or the characters,
\* or the files of these; it may change the conversation transcript only.
C25_GenerationOnlyReads ==
    [][(resp'.op \in {"generate", "generate_multiple", "generate_advanced"}) =>
          /\ settings' = settings /\ settings_file' = settings_file
          /\ timeline' = timeline /\ timeline_file' = timeline_file
          /\ plot_threads' = plot_threads /\ plots_file' = plots_file
          /\ stories' = stories /\ stories_file' = stories_file
          /\ characters' = characters /\ memory_file' = memory_file]_vars

\* a generation was answered and recorded in the transcript while a
\* character and a plot thread are stored
C25_Witness ==
    /\ resp.op = "generate"
    /\ resp.error = "none"
    /\ conversation # <<>>
    /\ characters # <<>>
    /\ plot_threads # <<>>

\* ------------------------------------------------------------------------
\* Properties of the filtered world context
\* ------------------------------------------------------------------------
\* the category of a stored setting, as a member of SettingType where it is one
CategoryOf(setting) ==
    IF setting.type \in SettingType THEN setting.type ELSE SettingTypeOf(setting.type)

\* C26: get_world_context(filter) emits the settings section, then the
\* events of importance >= 3 by year ascending, then the plot threads of
\* status "active" in collection order; the filter restricts the settings
\* section to the settings whose category is in the filter and nothing else.
C26_FilteredWorldContext ==
    [][(resp'.op = "get_world_context_for") =>
          \A relevant_types \in {{"GEOGRAPHY"}, {"GEOGRAPHY", "MAGIC"}} :
             GetWorldContextFor(relevant_types) =>
                LET wanted == SelectSeq(settings, LAMBDA x : CategoryOf(x) \in relevant_types)
                    events == SelectSeq(timeline, LAMBDA e : e.importance >= 3)
                    plots == SelectSeq(plot_threads, LAMBDA q : q.status = "active")
                    body == resp'.body
                    shownSettings == LinesOfKind(body, "setting")
                    shownEvents == LinesOfKind(body, "event")
                    shownPlots == LinesOfKind(body, "plot")
                IN /\ resp'.error = "none"
                   /\ Len(body) = 3 + Len(wanted) + Len(events) + Len(plots)
                   /\ body[1] = Line("header", "settings", 0, "")
                   /\ body[2 + Len(wanted)] = Line("header", "history", 0, "")
                   /\ body[3 + Len(wanted) + Len(events)] = Line("header", "plots", 0, "")
                   /\ \A k \in DOMAIN body :
                         /\ body[k].kind = "setting" => k <= 1 + Len(wanted)
                         /\ body[k].kind = "event" =>
                               k > 2 + Len(wanted) /\ k <= 2 + Len(wanted) + Len(events)
                         /\ body[k].kind = "plot" => k > 3 + Len(wanted) + Len(events)
                   /\ Len(shownSettings) = Len(wanted)
                   /\ \A k \in DOMAIN wanted : shownSettings[k].name = wanted[k].name
                   /\ Len(shownEvents) = Len(events)
                   /\ \A k \in DOMAIN events :
                         shownEvents[YearRank(events, k)] =
                             Line("event", events[k].name, events[k].year, "")
                   /\ Len(shownPlots) = Len(plots)
                   /\ \A k \in DOMAIN plots :
                         shownPlots[k] = Line("plot", plots[k].name, 0, "")]_vars

\* ------------------------------------------------------------------------
\* Properties of the ids and of the failures of the world endpoints
\* ------------------------------------------------------------------------
\* the collection grew by one entry under a key it did not hold, and every
\* entry it held is where and what it was
AddedOneEntry(before, after) ==
    /\ Len(after) = Len(before) + 1
    /\ \A i \in DOMAIN before : after[i] = before[i]
    /\ ~HasKey(before, after[Len(after)].id)
    /\ \A i, j \in DOMAIN after : after[i].id = after[j].id => i = j

\* C27: the id POST /world/settings, /world/timeline and /world/plots make
\* from the size of the collection is the key of no stored entity: each such
\* request that reaches the collection adds exactly one entry to it and
\* overwrites none, and leaves the other two collections as they were.
C27_FreshWorldIds ==
    [][/\ (resp'.op = "post_setting" /\ resp'.error # "ValueError") =>
             /\ AddedOneEntry(settings, settings')
             /\ timeline' = timeline /\ plot_threads' = plot_threads
       /\ (resp'.op = "post_timeline") =>
             /\ AddedOneEntry(timeline, timeline')
             /\ settings' = settings /\ plot_threads' = plot_threads
       /\ (resp'.op = "post_plot") =>
             /\ AddedOneEntry(plot_threads, plot_threads')
             /\ settings' = settings /\ timeline' = timeline]_vars

\* a third event was added to the timeline
C27_Witness ==
    /\ resp.op = "post_timeline"
    /\ Len(timeline) = 3
    /\ timeline[3].id = EventId(2)

\* C28: when add_setting, add_timeline_event or add_plot_thread raises, so
\* that the API answers with an error, the settings, the timeline and the
\* plot threads in memory are what they were before the call.
C28_FailedAddChangesNothing ==
    [][(/\ resp'.op \in {"post_setting", "post_timeline", "post_plot"}
        /\ resp'.error # "none") =>
           /\ settings' = settings
           /\ timeline' = timeline
           /\ plot_threads' = plot_threads]_vars

\* ------------------------------------------------------------------------
\* Properties of update_scene_content
\* ------------------------------------------------------------------------
\* the scene at place scene_index + 1 of chapter chapter_number of the story
\* holds the content and its length, and every other scene is what it was
OnlySceneChanged(story_id, chapter_number, scene_index, content) ==
    LET p == KeyPos(stories, story_id)
    IN /\ Len(stories') = Len(stories)
       /\ \A i \in DOMAIN stories : i # p => stories'[i] = stories[i]
       /\ Len(stories'[p].chapters) = Len(stories[p].chapters)
       /\ \A j \in DOMAIN stories[p].chapters :
             /\ Len(stories'[p].chapters[j].scenes) = Len(stories[p].chapters[j].scenes)
             /\ \A i \in DOMAIN stories[p].chapters[j].scenes :
                   IF j = chapter_number /\ i = scene_index + 1
                   THEN /\ stories'[p].chapters[j].scenes[i].content = content
                        /\ stories'[p].chapters[j].scenes[i].word_count = Len(content)
                   ELSE stories'[p].chapters[j].scenes[i] = stories[p].chapters[j].scenes[i]

\* C29: update_scene_content changes the content and the word count of the
\* scene at chapter chapter_number (from 1) and place scene_index (from 0)
\* only; for a story_id that is not stored, a chapter_number outside
\* 1..len(chapters) or a scene_index outside 0..len(scenes)-1 it fails and
\* changes no scene, no word count and no file.
C29_UpdateSceneRange ==
    [][(resp'.op = "update_scene_content") =>
          \A sid \in StoryIdInputs : \A cn \in ChapterNumberInputs(sid) :
             \A si \in SceneIndexInputs(sid, cn) : \A content \in SuggestContentInputs :
                UpdateSceneContent(sid, cn, si, content) =>
                   IF \/ ~HasKey(stories, sid)
                      \/ cn < 1
                      \/ cn > Len(stories[KeyPos(stories, sid)].chapters)
                      \/ si < 0
                      \/ si >= Len(stories[KeyPos(stories, sid)].chapters[cn].scenes)
                   THEN /\ resp'.error # "none"
                        /\ stories' = stories
                        /\ stories_file' = stories_file
                   ELSE /\ resp'.error = "none"
                        /\ OnlySceneChanged(sid, cn, si, content)]_vars

\* ------------------------------------------------------------------------
\* Properties of two requests in flight
\* ------------------------------------------------------------------------
\* both tasks are done and were requests to the same collection
BothDone(op) ==
    /\ Len(tasks) = 2
    /\ \A k \in DOMAIN tasks :
          tasks[k].pc = "done" /\ tasks[k].request.op = op /\ tasks[k].id # <<>>

\* the entities of both requests are stored, under distinct ids
BothStored(collection) ==
    /\ tasks[1].id # tasks[2].id
    /\ \A k \in DOMAIN tasks :
          /\ HasKey(collection, tasks[k].id[1])
          /\ collection[KeyPos(collection, tasks[k].id[1])].name = tasks[k].request.name

\* the chapters of both requests are in the story, under distinct numbers
BothChapters ==
    (tasks[1].request.story_id = tasks[2].request.story_id) =>
        LET chapters == stories[KeyPos(stories, tasks[1].request.story_id)].chapters
        IN /\ tasks[1].id # tasks[2].id
           /\ \A k \in DOMAIN tasks :
                 Cardinality({j \in DOMAIN chapters : chapters[j].number = tasks[k].id[1]}) = 1

\* C30: two mutating requests to one collection that are in flight together
\* are served one after the other: when both are done, both entities are
\* in memory under distinct ids (chapters: distinct numbers) and the file
\* holds the whole collection, both entities included.
C30_ConcurrentRequests ==
    /\ BothDone("post_setting") =>
          BothStored(settings) /\ HoldsCollection(settings_file, settings)
    /\ BothDone("post_timeline") =>
          BothStored(timeline) /\ HoldsCollection(timeline_file, timeline)
    /\ BothDone("add_chapter") =>
          BothChapters /\ stories_file = SavedStoriesFile(stories)

\* what of C30 is about the memory alone
C30_BothInMemory ==
    /\ BothDone("post_setting") => BothStored(settings)
    /\ BothDone("post_timeline") => BothStored(timeline)
    /\ BothDone("add_chapter") => BothChapters

====
